---- MODULE Spec2Model ----
(***************************************************************************)
(* Model of the interactive text buffer of the terminal input field        *)
(* (packages/cli/src/ui/components/shared/text-buffer.ts).                 *)
(*                                                                         *)
(* A string is a sequence of Unicode code points (naturals); the array of  *)
(* logical lines is a sequence of strings.  All positions are 0-based as   *)
(* in the source; the sequences themselves are 1-based.                    *)
(* An optional value (T | null) is the empty sequence for null and the     *)
(* one-element sequence <<v>> for the value v.                             *)
(***************************************************************************)
EXTENDS Integers, Sequences, FiniteSets, TLC

null == <<>>
Some(x) == <<x>>
Val(o) == o[1]

\* JavaScript's undefined, as the result of reading an array out of range.
undefined == -1

\* arr[i] of a JavaScript array (0-based), undefined out of range.
At(arr, i) == IF 0 <= i /\ i < Len(arr) THEN arr[i + 1] ELSE undefined

\* arr[i] = v of a JavaScript array: in range it overwrites, at i = length
\* it appends.  (Writes further out would leave holes; the model's bound
\* keeps cursorRow <= lines.length, so they do not occur.)
ArrSet(arr, i, v) ==
  IF i < Len(arr) THEN [arr EXCEPT ![i + 1] = v] ELSE Append(arr, v)

\* Array.prototype.splice(start, deleteCount, ...items), start >= 0.
splice(arr, start, deleteCount, items) ==
  LET s == IF start > Len(arr) THEN Len(arr) ELSE start
      d == IF deleteCount > Len(arr) - s THEN Len(arr) - s
           ELSE IF deleteCount < 0 THEN 0 ELSE deleteCount
  IN SubSeq(arr, 1, s) \o items \o SubSeq(arr, s + d + 1, Len(arr))

(***************************************************************************)
(* Code-point utilities (utils/textUtils.js)                               *)
(***************************************************************************)
toCodePoints(s) == s

cpLen(s) == Len(s)

clamp(v, min, max) == IF v < min THEN min ELSE IF v > max THEN max ELSE v

\* cpSlice(s, start, end): code points start..end-1, indices clamped.
cpSlice(s, start, end) ==
  SubSeq(s, clamp(start, 0, Len(s)) + 1, clamp(end, 0, Len(s)))

\* cpSlice(s, start): to the end of the string.
cpSliceFrom(s, start) == cpSlice(s, start, Len(s))

\* Code points outside the Basic Multilingual Plane take two UTF-16 units.
utf16Length(ch) == IF ch > 65535 THEN 2 ELSE 1

\* Code points of the model's alphabet that occupy two terminal cells
\* (CJK ideographs U+4E00..U+9FFF).
WideCodePoints == 19968..40959

\* stringWidth(char) of one code point: control characters 0, East-Asian
\* wide 2, everything else 1.
stringWidth(ch) ==
  IF ch <= 31 \/ (ch >= 127 /\ ch <= 159) THEN 0
  ELSE IF ch \in WideCodePoints THEN 2
  ELSE 1

\* Characters matched by /[\s,.;!?]/ : white space and , . ; ! ?
NonWordCodePoints == {9, 10, 11, 12, 13, 32, 160, 33, 44, 46, 59, 63}

isWordChar(ch) == IF ch = undefined THEN FALSE ELSE ch \notin NonWordCodePoints

(***************************************************************************)
(* String helpers of the JavaScript runtime                                *)
(***************************************************************************)
\* String.prototype.split(sep) on a one-code-point separator.
RECURSIVE split(_, _)
split(s, sep) ==
  IF \A i \in 1..Len(s) : s[i] # sep THEN <<s>>
  ELSE LET k == CHOOSE i \in 1..Len(s) :
                   s[i] = sep /\ \A j \in 1..(i - 1) : s[j] # sep
       IN <<SubSeq(s, 1, k - 1)>> \o split(SubSeq(s, k + 1, Len(s)), sep)

\* Array.prototype.join(sep).
RECURSIVE join(_, _)
join(parts, sep) ==
  IF Len(parts) = 0 THEN <<>>
  ELSE IF Len(parts) = 1 THEN parts[1]
  ELSE parts[1] \o <<sep>> \o join(Tail(parts), sep)

\* s.replace(/\r\n/g, '\n')
RECURSIVE replaceCRLF(_)
replaceCRLF(s) ==
  IF Len(s) = 0 THEN <<>>
  ELSE IF Len(s) >= 2 /\ s[1] = 13 /\ s[2] = 10
       THEN <<10>> \o replaceCRLF(SubSeq(s, 3, Len(s)))
  ELSE <<s[1]>> \o replaceCRLF(Tail(s))

\* s.replace(/\r/g, '\n')
replaceCR(s) == [i \in 1..Len(s) |-> IF s[i] = 13 THEN 10 ELSE s[i]]

\* s.replace(/\r\n?/g, '\n')
RECURSIVE replaceCROptLF(_)
replaceCROptLF(s) ==
  IF Len(s) = 0 THEN <<>>
  ELSE IF s[1] = 13
       THEN IF Len(s) >= 2 /\ s[2] = 10
            THEN <<10>> \o replaceCROptLF(SubSeq(s, 3, Len(s)))
            ELSE <<10>> \o replaceCROptLF(Tail(s))
  ELSE <<s[1]>> \o replaceCROptLF(Tail(s))

(***************************************************************************)
(* stripAnsi: removes the escape sequences  ESC|CSI  [[\]()#;?]*  final    *)
(* (the alphabet of the model has no digits and no BEL, so parameter       *)
(* bytes and BEL-terminated sequences do not arise).                       *)
(***************************************************************************)
AnsiIntroducer == {27, 155}
AnsiIntermediate == {91, 93, 40, 41, 35, 59, 63}
AnsiFinal ==
  (48..57) \cup (65..80) \cup (82..84) \cup {90, 99} \cup (102..110)
  \cup (113..117) \cup {121, 61, 62, 60, 126}

RECURSIVE skipIntermediate(_, _)
skipIntermediate(s, i) ==
  IF i <= Len(s) /\ s[i] \in AnsiIntermediate
  THEN skipIntermediate(s, i + 1) ELSE i

RECURSIVE stripAnsi(_)
stripAnsi(s) ==
  IF Len(s) = 0 THEN <<>>
  ELSE IF s[1] \in AnsiIntroducer
       THEN LET f == skipIntermediate(s, 2)
            IN IF f <= Len(s) /\ s[f] \in AnsiFinal
               THEN stripAnsi(SubSeq(s, f + 1, Len(s)))
               ELSE <<s[1]>> \o stripAnsi(Tail(s))
  ELSE <<s[1]>> \o stripAnsi(Tail(s))

isUnsafe(code) == code = 127 \/ (code <= 31 /\ code # 13 /\ code # 10)

stripUnsafeCharacters(str) ==
  LET stripped == stripAnsi(str)
  IN SelectSeq(toCodePoints(stripAnsi(stripped)),
               LAMBDA char : ~(utf16Length(char) > 1) /\ ~isUnsafe(char))

(***************************************************************************)
(* Position mapper                                                         *)
(***************************************************************************)
\* The while loop of calculateInitialCursorPosition, from row on.
RECURSIVE initialCursorLoop(_, _, _)
initialCursorLoop(initialLines, remainingChars, row) ==
  IF row < Len(initialLines)
  THEN LET lineLength == cpLen(initialLines[row + 1])
           totalCharsInLineAndNewline ==
             lineLength + (IF row < Len(initialLines) - 1 THEN 1 ELSE 0)
       IN IF remainingChars <= lineLength
          THEN <<row, remainingChars>>
          ELSE initialCursorLoop(initialLines,
                                 remainingChars - totalCharsInLineAndNewline,
                                 row + 1)
  ELSE IF Len(initialLines) > 0
       THEN <<Len(initialLines) - 1, cpLen(initialLines[Len(initialLines)])>>
       ELSE <<0, 0>>

calculateInitialCursorPosition(initialLines, offset) ==
  initialCursorLoop(initialLines, offset, 0)

\* The for loop that leaves an offset on a separator at the end of its line.
RECURSIVE offsetLoopStaying(_, _, _, _)
offsetLoopStaying(lines, offset, i, currentOffset) ==
  IF i < Len(lines)
  THEN LET lineLength == cpLen(lines[i + 1])
           lineLengthWithNewline ==
             lineLength + (IF i < Len(lines) - 1 THEN 1 ELSE 0)
       IN IF offset <= currentOffset + lineLengthWithNewline
          THEN <<i, IF offset - currentOffset > lineLength THEN lineLength
                    ELSE offset - currentOffset>>
          ELSE offsetLoopStaying(lines, offset, i + 1,
                                 currentOffset + lineLengthWithNewline)
  ELSE IF Len(lines) > 0
       THEN <<Len(lines) - 1, cpLen(lines[Len(lines)])>>
       ELSE <<0, 0>>

\* The for loop of offsetToLogicalPos, from line i on.
RECURSIVE offsetLoop(_, _, _, _)
offsetLoop(lines, offset, i, currentOffset) ==
  IF i < Len(lines)
  THEN LET lineLength == cpLen(lines[i + 1])
           lineLengthWithNewline ==
             lineLength + (IF i < Len(lines) - 1 THEN 1 ELSE 0)
       IN IF offset <= currentOffset + lineLength
          THEN <<i, offset - currentOffset>>
          ELSE IF offset <= currentOffset + lineLengthWithNewline
               THEN IF offset = currentOffset + lineLengthWithNewline
                       /\ i < Len(lines) - 1
                    THEN <<i + 1, 0>>
                    ELSE <<i, lineLength>>
          ELSE offsetLoop(lines, offset, i + 1,
                          currentOffset + lineLengthWithNewline)
  ELSE IF Len(lines) > 0
       THEN <<Len(lines) - 1, cpLen(lines[Len(lines)])>>
       ELSE <<0, 0>>

offsetToLogicalPos(text, offset) ==
  IF offset = 0 THEN <<0, 0>>
  ELSE offsetLoop(split(text, 10), offset, 0, 0)

(***************************************************************************)
(* Visual layouter                                                         *)
(***************************************************************************)
\* The inner for loop that takes the overflowing code point into the chunk.
RECURSIVE scanChunkGreedy(_, _, _, _, _, _, _, _)
scanChunkGreedy(cps, pos, i, w, n, lwb, nawb, viewportWidth) ==
  IF i >= Len(cps) THEN n
  ELSE LET char == cps[i + 1]
           charVisualWidth == stringWidth(char)
       IN IF w + charVisualWidth > viewportWidth
          THEN IF lwb # -1 /\ nawb > 0 /\ pos + nawb < i
               THEN nawb
               ELSE n + 1
          ELSE scanChunkGreedy(cps, pos, i + 1, w + charVisualWidth, n + 1,
                               IF char = 32 THEN i ELSE lwb,
                               IF char = 32 THEN n ELSE nawb,
                               viewportWidth)

\* The inner for loop that builds one chunk starting at pos: the value of
\* numCodePointsInChunk when the loop ends.  w is currentChunkVisualWidth,
\* lwb lastWordBreakPoint, nawb numCodePointsAtLastWordBreak.
RECURSIVE scanChunk(_, _, _, _, _, _, _, _)
scanChunk(cps, pos, i, w, n, lwb, nawb, viewportWidth) ==
  IF i >= Len(cps) THEN n
  ELSE LET char == cps[i + 1]
           charVisualWidth == stringWidth(char)
       IN IF w + charVisualWidth > viewportWidth
          THEN IF lwb # -1 /\ nawb > 0 /\ pos + nawb < i
               THEN nawb
               ELSE IF n = 0 /\ charVisualWidth > viewportWidth THEN 1 ELSE n
          ELSE scanChunk(cps, pos, i + 1, w + charVisualWidth, n + 1,
                         IF char = 32 THEN i ELSE lwb,
                         IF char = 32 THEN n ELSE nawb,
                         viewportWidth)

\* numCodePointsInChunk that lets a leading space end the chunk before it.
chunkLenAtWordBreak(cps, pos, viewportWidth) ==
  IF pos < Len(cps) /\ cps[pos + 1] = 32 THEN 0
  ELSE scanChunk(cps, pos, pos, 0, 0, -1, 0, viewportWidth)

\* numCodePointsInChunk of the chunk starting at pos, after the two
\* "force advance" guards that follow the inner loop.
chunkLen(cps, pos, viewportWidth) ==
  LET n == scanChunk(cps, pos, pos, 0, 0, -1, 0, viewportWidth)
  IN IF n = 0 /\ pos < Len(cps) THEN 1 ELSE n

\* The while loop that skips whatever code point follows a chunk.
RECURSIVE lineChunksSkippingAny(_, _, _)
lineChunksSkippingAny(cps, pos, viewportWidth) ==
  IF pos >= Len(cps) THEN <<>>
  ELSE LET n == chunkLen(cps, pos, viewportWidth)
           after == pos + n
           next == IF after < Len(cps) THEN after + 1 ELSE after
       IN <<[start |-> pos, len |-> n]>>
          \o lineChunksSkippingAny(cps, next, viewportWidth)

\* The chunks of a non-empty logical line from pos on, each [start, len];
\* one space following a chunk is skipped.
RECURSIVE lineChunks(_, _, _)
lineChunks(cps, pos, viewportWidth) ==
  IF pos >= Len(cps) THEN <<>>
  ELSE LET n == chunkLen(cps, pos, viewportWidth)
           after == pos + n
           next == IF after < Len(cps) /\ cps[after + 1] = 32
                   THEN after + 1 ELSE after
       IN <<[start |-> pos, len |-> n]>> \o lineChunks(cps, next, viewportWidth)

\* The chunks of one logical line; an empty line is one empty chunk.
chunksOf(logLine, viewportWidth) ==
  IF Len(logLine) = 0 THEN <<[start |-> 0, len |-> 0]>>
  ELSE lineChunks(toCodePoints(logLine), 0, viewportWidth)

\* Number of visual lines produced by the first k logical lines, whose
\* chunks are chunks[1..k].
RECURSIVE visualBase(_, _)
visualBase(chunks, k) ==
  IF k = 0 THEN 0
  ELSE visualBase(chunks, k - 1) + Len(chunks[k])

\* The cursor mapping run after each chunk of the cursor's logical line.
RECURSIVE cursorInChunks(_, _, _, _, _)
cursorInChunks(chunks, k, base, cursorLogCol, cur) ==
  IF k > Len(chunks) THEN cur
  ELSE LET c == chunks[k]
           now == IF cursorLogCol >= c.start /\ cursorLogCol < c.start + c.len
                  THEN <<base + k - 1, cursorLogCol - c.start>>
                  ELSE IF cursorLogCol = c.start + c.len /\ c.len > 0
                       THEN <<base + k - 1, c.len>>
                       ELSE cur
       IN cursorInChunks(chunks, k + 1, base, cursorLogCol, now)

\* The layout of logicalLines whose chunks, line by line, are chunks.
layoutOfChunks(logicalLines, logicalCursor, chunks) ==
  LET base(i) == visualBase(chunks, i - 1)
      total == visualBase(chunks, Len(logicalLines))
      \* the logical line (1-based) and chunk of visual row v (1-based)
      lineOf(v) == CHOOSE i \in 1..Len(logicalLines) :
                     base(i) < v /\ v <= base(i) + Len(chunks[i])
      chunkOf(v) == chunks[lineOf(v)][v - base(lineOf(v))]
      visualLines ==
        [v \in 1..total |->
           SubSeq(logicalLines[lineOf(v)], chunkOf(v).start + 1,
                  chunkOf(v).start + chunkOf(v).len)]
      visualToLogicalMap ==
        [v \in 1..total |-> <<lineOf(v) - 1, chunkOf(v).start>>]
      logicalToVisualMap ==
        [i \in 1..Len(logicalLines) |->
           [k \in 1..Len(chunks[i]) |-> <<base(i) + k - 1, chunks[i][k].start>>]]
      row == logicalCursor[1]
      col == logicalCursor[2]
      \* cursor as left by the forEach over the logical lines
      inLoop ==
        IF row < 0 \/ row >= Len(logicalLines) THEN <<0, 0>>
        ELSE LET logLine == logicalLines[row + 1]
             IN IF Len(logLine) = 0
                THEN IF col = 0 THEN <<base(row + 1), 0>> ELSE <<0, 0>>
                ELSE LET c1 == cursorInChunks(chunks[row + 1], 1, base(row + 1),
                                              col, <<0, 0>>)
                         lastIdx == base(row + 1) + Len(chunks[row + 1])
                     IN IF col = Len(logLine)
                        THEN <<lastIdx - 1, cpLen(visualLines[lastIdx])>>
                        ELSE c1
      visualCursor ==
        IF Len(logicalLines) = 0
           \/ (Len(logicalLines) = 1 /\ logicalLines[1] = <<>>)
        THEN <<0, 0>>
        ELSE IF row = Len(logicalLines) - 1
                /\ col = cpLen(logicalLines[Len(logicalLines)])
                /\ total > 0
             THEN <<total - 1, cpLen(visualLines[total])>>
             ELSE inLoop
  IN [visualLines |-> visualLines,
      visualCursor |-> visualCursor,
      logicalToVisualMap |-> logicalToVisualMap,
      visualToLogicalMap |-> visualToLogicalMap]

\* The chunks of every logical line are computed once, in line order, and
\* the maps and the cursor are read off them.
calculateVisualLayout(logicalLines, logicalCursor, viewportWidth) ==
  CHOOSE layout \in
    {layoutOfChunks(logicalLines, logicalCursor, chunks) :
       chunks \in {[i \in 1..Len(logicalLines) |->
                      chunksOf(logicalLines[i], viewportWidth)]}} : TRUE

(***************************************************************************)
(* Edit engine: textBufferReducer                                          *)
(*                                                                         *)
(* A TextBufferState is the record                                         *)
(*   [lines, cursorRow, cursorCol, preferredCol, undoStack, redoStack,     *)
(*    clipboard, selectionAnchor]                                          *)
(* and an UndoHistoryEntry is [lines, cursorRow, cursorCol].               *)
(***************************************************************************)
historyLimit == 100

\* The UndoHistoryEntry taken of a state.
snapshotOf(currentState) ==
  [lines |-> currentState.lines,
   cursorRow |-> currentState.cursorRow,
   cursorCol |-> currentState.cursorCol]
\* pushUndo that forgets the cursor column.
pushUndoWithoutColumn(currentState) ==
  [currentState EXCEPT
     !.undoStack = Append(currentState.undoStack,
                          [snapshotOf(currentState) EXCEPT !.cursorCol = 0]),
     !.redoStack = <<>>]

\* pushUndo that keeps the redo stack.
pushUndoKeepingRedo(currentState) ==
  LET newStack == Append(currentState.undoStack, snapshotOf(currentState))
  IN [currentState EXCEPT
        !.undoStack = IF Len(newStack) > historyLimit THEN Tail(newStack)
                      ELSE newStack]

\* pushUndo that never drops the oldest snapshot.
pushUndoUnlimited(currentState) ==
  [currentState EXCEPT
     !.undoStack = Append(currentState.undoStack, snapshotOf(currentState)),
     !.redoStack = <<>>]

pushUndo(currentState) ==
  LET snapshot == snapshotOf(currentState)
      newStack == Append(currentState.undoStack, snapshot)
      shifted == IF Len(newStack) > historyLimit THEN Tail(newStack)
                 ELSE newStack
  IN [currentState EXCEPT !.undoStack = shifted, !.redoStack = <<>>]

\* lines[r] ?? ''
currentLine(lines, r) ==
  IF 0 <= r /\ r < Len(lines) THEN lines[r + 1] ELSE <<>>

currentLineLen(lines, r) == cpLen(currentLine(lines, r))

\* SET_TEXT that replaces CRLF only and keeps every lone CR.
SET_TEXTKeepingCR(state, payload, pushToUndo) ==
  LET nextState == IF pushToUndo # FALSE THEN pushUndo(state) ELSE state
      lines == split(replaceCRLF(payload), 10)
      lastNewLineIndex == Len(lines) - 1
  IN [nextState EXCEPT !.lines = lines,
                       !.cursorRow = lastNewLineIndex,
                       !.cursorCol = cpLen(currentLine(lines, lastNewLineIndex)),
                       !.preferredCol = null]

SET_TEXT(state, payload, pushToUndo) ==
  LET nextState == IF pushToUndo # FALSE THEN pushUndo(state) ELSE state
      newContentLines == split(replaceCROptLF(payload), 10)
      lines == IF Len(newContentLines) = 0 THEN <<<<>>>> ELSE newContentLines
      lastNewLineIndex == Len(lines) - 1
  IN [nextState EXCEPT !.lines = lines,
                       !.cursorRow = lastNewLineIndex,
                       !.cursorCol = cpLen(currentLine(lines, lastNewLineIndex)),
                       !.preferredCol = null]

insertOp(payload) == [type |-> "insert", payload |-> payload]
backspaceOp == [type |-> "backspace"]
\* Expansion that leaves code point 127 in the text.
expandInsertKeeping(cps, i, currentText) ==
  IF Len(cps) > 0 THEN <<insertOp(cps)>> ELSE <<>>

\* Expansion of one insert payload from code point i on: every code point
\* 127 becomes a backspace operation that splits the surrounding text.
RECURSIVE expandInsert(_, _, _)
expandInsert(cps, i, currentText) ==
  IF i > Len(cps)
  THEN IF Len(currentText) > 0 THEN <<insertOp(currentText)>> ELSE <<>>
  ELSE IF cps[i] = 127
       THEN (IF Len(currentText) > 0 THEN <<insertOp(currentText)>> ELSE <<>>)
            \o <<backspaceOp>> \o expandInsert(cps, i + 1, <<>>)
       ELSE expandInsert(cps, i + 1, Append(currentText, cps[i]))

RECURSIVE expandOps(_)
expandOps(ops) ==
  IF Len(ops) = 0 THEN <<>>
  ELSE (IF ops[1].type = "insert"
        THEN expandInsert(toCodePoints(ops[1].payload), 1, <<>>)
        ELSE <<ops[1]>>)
       \o expandOps(Tail(ops))

\* One insert operation on the working copy [lines, cursorRow, cursorCol].
applyInsert(w, payload) ==
  LET str == stripUnsafeCharacters(replaceCR(replaceCRLF(payload)))
      parts == split(str, 10)
      lineContent == currentLine(w.lines, w.cursorRow)
      before == cpSlice(lineContent, 0, w.cursorCol)
      after == cpSliceFrom(lineContent, w.cursorCol)
  IN IF Len(parts) > 1
     THEN LET l1 == ArrSet(w.lines, w.cursorRow, before \o parts[1])
              remainingParts == SubSeq(parts, 2, Len(parts) - 1)
              lastPartOriginal == parts[Len(parts)]
              l2 == splice(l1, w.cursorRow + 1, 0, remainingParts)
              l3 == splice(l2, w.cursorRow + Len(parts) - 1, 0,
                           <<lastPartOriginal \o after>>)
          IN [lines |-> l3,
              cursorRow |-> w.cursorRow + Len(parts) - 1,
              cursorCol |-> cpLen(lastPartOriginal)]
     ELSE [lines |-> ArrSet(w.lines, w.cursorRow, before \o parts[1] \o after),
           cursorRow |-> w.cursorRow,
           cursorCol |-> cpLen(before) + cpLen(parts[1])]

\* A backspace whose line merge leaves the cursor at column 0.
applyBackspaceToLineStart(w) ==
  IF w.cursorCol = 0 /\ w.cursorRow = 0 THEN w
  ELSE IF w.cursorCol > 0
       THEN LET lineContent == currentLine(w.lines, w.cursorRow)
            IN [lines |-> ArrSet(w.lines, w.cursorRow,
                                 cpSlice(lineContent, 0, w.cursorCol - 1)
                                 \o cpSliceFrom(lineContent, w.cursorCol)),
                cursorRow |-> w.cursorRow,
                cursorCol |-> w.cursorCol - 1]
  ELSE LET prevLineContent == currentLine(w.lines, w.cursorRow - 1)
           l1 == ArrSet(w.lines, w.cursorRow - 1,
                        prevLineContent \o currentLine(w.lines, w.cursorRow))
       IN [lines |-> splice(l1, w.cursorRow, 1, <<>>),
           cursorRow |-> w.cursorRow - 1,
           cursorCol |-> 0]

\* One backspace operation on the working copy.
applyBackspace(w) ==
  IF w.cursorCol = 0 /\ w.cursorRow = 0 THEN w
  ELSE IF w.cursorCol > 0
       THEN LET lineContent == currentLine(w.lines, w.cursorRow)
            IN [lines |-> ArrSet(w.lines, w.cursorRow,
                                 cpSlice(lineContent, 0, w.cursorCol - 1)
                                 \o cpSliceFrom(lineContent, w.cursorCol)),
                cursorRow |-> w.cursorRow,
                cursorCol |-> w.cursorCol - 1]
  ELSE IF w.cursorRow > 0
       THEN LET prevLineContent == currentLine(w.lines, w.cursorRow - 1)
                currentLineContentVal == currentLine(w.lines, w.cursorRow)
                newCol == cpLen(prevLineContent)
                l1 == ArrSet(w.lines, w.cursorRow - 1,
                             prevLineContent \o currentLineContentVal)
            IN [lines |-> splice(l1, w.cursorRow, 1, <<>>),
                cursorRow |-> w.cursorRow - 1,
                cursorCol |-> newCol]
  ELSE w
\* The loop over the expanded operations, last one first.
RECURSIVE applyExpandedBackwards(_, _)
applyExpandedBackwards(w, expandedOps) ==
  IF Len(expandedOps) = 0 THEN w
  ELSE LET op == expandedOps[Len(expandedOps)]
       IN applyExpandedBackwards(
            IF op.type = "insert" THEN applyInsert(w, op.payload)
            ELSE applyBackspace(w),
            SubSeq(expandedOps, 1, Len(expandedOps) - 1))

\* The loop over the expanded operations, in order.
RECURSIVE applyExpanded(_, _)
applyExpanded(w, expandedOps) ==
  IF Len(expandedOps) = 0 THEN w
  ELSE applyExpanded(IF expandedOps[1].type = "insert"
                     THEN applyInsert(w, expandedOps[1].payload)
                     ELSE applyBackspace(w),
                     Tail(expandedOps))

APPLY_OPERATIONS(state, payload) ==
  IF Len(payload) = 0 THEN state
  ELSE LET expandedOps == expandOps(payload)
       IN IF Len(expandedOps) = 0 THEN state
          ELSE LET nextState == pushUndo(state)
                   w == applyExpanded(snapshotOf(nextState), expandedOps)
               IN [nextState EXCEPT !.lines = w.lines,
                                    !.cursorRow = w.cursorRow,
                                    !.cursorCol = w.cursorCol,
                                    !.preferredCol = null]

\* cpLen(visualLines[r] ?? '')
visLineLen(visualLines, r) ==
  IF 0 <= r /\ r < Len(visualLines) THEN cpLen(visualLines[r + 1]) ELSE 0

MOVE(state, dir, visualLayout) ==
  LET visualLines == visualLayout.visualLines
      visualCursor == visualLayout.visualCursor
      visualToLogicalMap == visualLayout.visualToLogicalMap
      vRow == visualCursor[1]
      vCol == visualCursor[2]
      currentVisLineLen == visLineLen(visualLines, vRow)
      pref == IF state.preferredCol = null THEN vCol
              ELSE Val(state.preferredCol)
      \* <<newVisualRow, newVisualCol, newPreferredCol>>
      r == CASE dir = "left" ->
                  IF vCol > 0 THEN <<vRow, vCol - 1, null>>
                  ELSE IF vRow > 0
                       THEN <<vRow - 1, visLineLen(visualLines, vRow - 1), null>>
                       ELSE <<vRow, vCol, null>>
             [] dir = "right" ->
                  IF vCol < currentVisLineLen THEN <<vRow, vCol + 1, null>>
                  ELSE IF vRow < Len(visualLines) - 1
                       THEN <<vRow + 1, 0, null>>
                       ELSE <<vRow, vCol, null>>
             [] dir = "up" ->
                  IF vRow > 0
                  THEN <<vRow - 1,
                         clamp(pref, 0, visLineLen(visualLines, vRow - 1)),
                         Some(pref)>>
                  ELSE <<vRow, vCol, state.preferredCol>>
             [] dir = "down" ->
                  IF vRow < Len(visualLines) - 1
                  THEN <<vRow + 1,
                         clamp(pref, 0, visLineLen(visualLines, vRow + 1)),
                         Some(pref)>>
                  ELSE <<vRow, vCol, state.preferredCol>>
             [] dir = "home" -> <<vRow, 0, null>>
             [] dir = "end" -> <<vRow, currentVisLineLen, null>>
             [] OTHER -> <<vRow, vCol, state.preferredCol>>
      newVisualRow == r[1]
      newVisualCol == r[2]
  IN IF 0 <= newVisualRow /\ newVisualRow < Len(visualToLogicalMap)
     THEN LET logRow == visualToLogicalMap[newVisualRow + 1][1]
              logStartCol == visualToLogicalMap[newVisualRow + 1][2]
          IN [state EXCEPT
                !.cursorRow = logRow,
                !.cursorCol = clamp(logStartCol + newVisualCol, 0,
                                    currentLineLen(state.lines, logRow)),
                !.preferredCol = r[3]]
     ELSE state

\* Joining line r with the line after it ("act as a delete").
joinWithNext(state, nextState) ==
  LET lineContent == currentLine(state.lines, state.cursorRow)
      nextLineContent == currentLine(state.lines, state.cursorRow + 1)
      l1 == ArrSet(nextState.lines, state.cursorRow,
                   lineContent \o nextLineContent)
  IN [nextState EXCEPT !.lines = splice(l1, state.cursorRow + 1, 1, <<>>),
                       !.preferredCol = null]

DELETE(state) ==
  LET cursorRow == state.cursorRow
      cursorCol == state.cursorCol
      lineContent == currentLine(state.lines, cursorRow)
  IN IF cursorCol < currentLineLen(state.lines, cursorRow)
     THEN LET nextState == pushUndo(state)
          IN [nextState EXCEPT
                !.lines = ArrSet(nextState.lines, cursorRow,
                                 cpSlice(lineContent, 0, cursorCol)
                                 \o cpSliceFrom(lineContent, cursorCol + 1)),
                !.preferredCol = null]
     ELSE IF cursorRow < Len(state.lines) - 1
          THEN joinWithNext(state, pushUndo(state))
          ELSE state

\* The scan that stops after one code point.
scanLeftOnce(arr, start, word) ==
  IF start > 0 /\ isWordChar(At(arr, start - 1)) = word
  THEN start - 1 ELSE start

\* while (start > 0 && isWordChar(arr[start - 1]) = word) start--
RECURSIVE scanLeft(_, _, _)
scanLeft(arr, start, word) ==
  IF start > 0 /\ isWordChar(At(arr, start - 1)) = word
  THEN scanLeft(arr, start - 1, word) ELSE start

\* while (end < arr.length && isWordChar(arr[end]) = word) end++
RECURSIVE scanRight(_, _, _)
scanRight(arr, end, word) ==
  IF end < Len(arr) /\ isWordChar(At(arr, end)) = word
  THEN scanRight(arr, end + 1, word) ELSE end

DELETE_WORD_LEFT(state) ==
  LET cursorRow == state.cursorRow
      cursorCol == state.cursorCol
  IN IF cursorCol = 0 /\ cursorRow = 0 THEN state
     ELSE IF cursorCol = 0
          THEN LET nextState == pushUndo(state)
                   prevLineContent == currentLine(state.lines, cursorRow - 1)
                   currentLineContentVal == currentLine(state.lines, cursorRow)
                   newCol == cpLen(prevLineContent)
                   l1 == ArrSet(nextState.lines, cursorRow - 1,
                                prevLineContent \o currentLineContentVal)
               IN [nextState EXCEPT !.lines = splice(l1, cursorRow, 1, <<>>),
                                    !.cursorRow = cursorRow - 1,
                                    !.cursorCol = newCol,
                                    !.preferredCol = null]
     ELSE LET nextState == pushUndo(state)
              lineContent == currentLine(state.lines, cursorRow)
              arr == toCodePoints(lineContent)
              onlySpaces == \A i \in 0..(cursorCol - 1) : ~isWordChar(At(arr, i))
              start == IF onlySpaces /\ cursorCol > 0 THEN cursorCol - 1
                       ELSE scanLeft(arr, scanLeft(arr, cursorCol, FALSE), TRUE)
          IN [nextState EXCEPT
                !.lines = ArrSet(nextState.lines, cursorRow,
                                 cpSlice(lineContent, 0, start)
                                 \o cpSliceFrom(lineContent, cursorCol)),
                !.cursorCol = start,
                !.preferredCol = null]

DELETE_WORD_RIGHT(state) ==
  LET cursorRow == state.cursorRow
      cursorCol == state.cursorCol
      lineContent == currentLine(state.lines, cursorRow)
      arr == toCodePoints(lineContent)
  IN IF cursorCol >= Len(arr) /\ cursorRow = Len(state.lines) - 1 THEN state
     ELSE IF cursorCol >= Len(arr)
          THEN joinWithNext(state, pushUndo(state))
     ELSE LET nextState == pushUndo(state)
              end == scanRight(arr, scanRight(arr, cursorCol, FALSE), TRUE)
          IN [nextState EXCEPT
                !.lines = ArrSet(nextState.lines, cursorRow,
                                 cpSlice(lineContent, 0, cursorCol)
                                 \o cpSliceFrom(lineContent, end)),
                !.preferredCol = null]

\* KILL_LINE_RIGHT that never joins lines.
KILL_LINE_RIGHTWithinLine(state) ==
  LET cursorRow == state.cursorRow
      cursorCol == state.cursorCol
      lineContent == currentLine(state.lines, cursorRow)
  IN IF cursorCol < currentLineLen(state.lines, cursorRow)
     THEN LET nextState == pushUndo(state)
          IN [nextState EXCEPT
                !.lines = ArrSet(nextState.lines, cursorRow,
                                 cpSlice(lineContent, 0, cursorCol))]
     ELSE state

KILL_LINE_RIGHT(state) ==
  LET cursorRow == state.cursorRow
      cursorCol == state.cursorCol
      lineContent == currentLine(state.lines, cursorRow)
  IN IF cursorCol < currentLineLen(state.lines, cursorRow)
     THEN LET nextState == pushUndo(state)
          IN [nextState EXCEPT
                !.lines = ArrSet(nextState.lines, cursorRow,
                                 cpSlice(lineContent, 0, cursorCol))]
     ELSE IF cursorRow < Len(state.lines) - 1
          THEN joinWithNext(state, pushUndo(state))
          ELSE state

KILL_LINE_LEFT(state) ==
  LET cursorRow == state.cursorRow
      cursorCol == state.cursorCol
  IN IF cursorCol > 0
     THEN LET nextState == pushUndo(state)
              lineContent == currentLine(state.lines, cursorRow)
          IN [nextState EXCEPT
                !.lines = ArrSet(nextState.lines, cursorRow,
                                 cpSliceFrom(lineContent, cursorCol)),
                !.cursorCol = 0,
                !.preferredCol = null]
     ELSE state

UNDO(state) ==
  IF Len(state.undoStack) = 0 THEN state
  ELSE LET stateToRestore == state.undoStack[Len(state.undoStack)]
           currentSnapshot == snapshotOf(state)
       IN [state EXCEPT
             !.lines = stateToRestore.lines,
             !.cursorRow = stateToRestore.cursorRow,
             !.cursorCol = stateToRestore.cursorCol,
             !.undoStack = SubSeq(state.undoStack, 1, Len(state.undoStack) - 1),
             !.redoStack = Append(state.redoStack, currentSnapshot)]
\* REDO that drops the rest of the redo stack.
REDODroppingRest(state) ==
  IF Len(state.redoStack) = 0 THEN state
  ELSE LET stateToRestore == state.redoStack[Len(state.redoStack)]
       IN [state EXCEPT
             !.lines = stateToRestore.lines,
             !.cursorRow = stateToRestore.cursorRow,
             !.cursorCol = stateToRestore.cursorCol,
             !.redoStack = <<>>,
             !.undoStack = Append(state.undoStack, snapshotOf(state))]

REDO(state) ==
  IF Len(state.redoStack) = 0 THEN state
  ELSE LET stateToRestore == state.redoStack[Len(state.redoStack)]
           currentSnapshot == snapshotOf(state)
       IN [state EXCEPT
             !.lines = stateToRestore.lines,
             !.cursorRow = stateToRestore.cursorRow,
             !.cursorCol = stateToRestore.cursorCol,
             !.redoStack = SubSeq(state.redoStack, 1, Len(state.redoStack) - 1),
             !.undoStack = Append(state.undoStack, currentSnapshot)]

PASTE(state) ==
  IF state.clipboard = null THEN state
  ELSE LET nextState == pushUndo(state)
           cursorRow == nextState.cursorRow
           cursorCol == nextState.cursorCol
           lineContent == currentLine(state.lines, cursorRow)
           before == cpSlice(lineContent, 0, cursorCol)
           after == cpSliceFrom(lineContent, cursorCol)
           pasteContent ==
             stripUnsafeCharacters(replaceCR(replaceCRLF(Val(state.clipboard))))
           parts == split(pasteContent, 10)
       IN IF Len(parts) > 1
          THEN LET l1 == ArrSet(nextState.lines, cursorRow, before \o parts[1])
                   remainingParts == SubSeq(parts, 2, Len(parts) - 1)
                   lastPartOriginal == parts[Len(parts)]
                   l2 == splice(l1, cursorRow + 1, 0, remainingParts)
                   l3 == splice(l2, cursorRow + Len(parts) - 1, 0,
                                <<lastPartOriginal \o after>>)
               IN [nextState EXCEPT !.lines = l3,
                                    !.cursorRow = cursorRow + Len(parts) - 1,
                                    !.cursorCol = cpLen(lastPartOriginal),
                                    !.preferredCol = null]
          ELSE [nextState EXCEPT
                  !.lines = ArrSet(nextState.lines, cursorRow,
                                   before \o parts[1] \o after),
                  !.cursorCol = cpLen(before) + cpLen(parts[1]),
                  !.preferredCol = null]

\* The guard of REPLACE_RANGE: TRUE when the range is rejected.
invalidRange(lines, startRow, startCol, endRow, endCol) ==
  \/ startRow > endRow
  \/ (startRow = endRow /\ startCol > endCol)
  \/ startRow < 0
  \/ startCol < 0
  \/ endRow >= Len(lines)
  \/ (endRow < Len(lines) /\ endCol > currentLineLen(lines, endRow))

REPLACE_RANGE(state, startRow, startCol, endRow, endCol, text) ==
  IF invalidRange(state.lines, startRow, startCol, endRow, endCol) THEN state
  ELSE LET nextState == pushUndo(state)
           sCol == clamp(startCol, 0, currentLineLen(state.lines, startRow))
           eCol == clamp(endCol, 0, currentLineLen(state.lines, endRow))
           prefix == cpSlice(currentLine(state.lines, startRow), 0, sCol)
           suffix == cpSliceFrom(currentLine(state.lines, endRow), eCol)
           normalisedReplacement == replaceCR(replaceCRLF(text))
           replacementParts == split(normalisedReplacement, 10)
           lastPart == replacementParts[Len(replacementParts)]
           newLines ==
             IF startRow = endRow
             THEN ArrSet(nextState.lines, startRow,
                         prefix \o normalisedReplacement \o suffix)
             ELSE LET firstLine == prefix \o replacementParts[1]
                  IN IF Len(replacementParts) = 1
                     THEN splice(nextState.lines, startRow,
                                 endRow - startRow + 1, <<firstLine \o suffix>>)
                     ELSE LET lastLine == lastPart \o suffix
                              middleLines ==
                                SubSeq(replacementParts, 2,
                                       Len(replacementParts) - 1)
                          IN splice(nextState.lines, startRow,
                                    endRow - startRow + 1,
                                    <<firstLine>> \o middleLines \o <<lastLine>>)
           finalCursorRow == startRow + Len(replacementParts) - 1
           finalCursorCol ==
             (IF Len(replacementParts) > 1 THEN 0 ELSE sCol) + cpLen(lastPart)
       IN [nextState EXCEPT !.lines = newLines,
                            !.cursorRow = finalCursorRow,
                            !.cursorCol = finalCursorCol,
                            !.preferredCol = null]

MOVE_TO_OFFSET(state, text, offset) ==
  LET pos == offsetToLogicalPos(text, offset)
  IN [state EXCEPT !.cursorRow = pos[1],
                   !.cursorCol = pos[2],
                   !.preferredCol = null]

\* parts.join('\n') of the lines sr+1 .. er-1
RECURSIVE linesBetween(_, _, _)
linesBetween(lines, r, er) ==
  IF r < er THEN <<currentLine(lines, r)>> \o linesBetween(lines, r + 1, er)
  ELSE <<>>

\* COPY that ends the selection.
COPYEndingSelection(state) ==
  IF state.selectionAnchor = null THEN state
  ELSE [state EXCEPT !.clipboard = Some(<<>>), !.selectionAnchor = null]

COPY(state) ==
  IF state.selectionAnchor = null THEN state
  ELSE LET ar == Val(state.selectionAnchor)[1]
           ac == Val(state.selectionAnchor)[2]
           br == state.cursorRow
           bc == state.cursorCol
       IN IF ar = br /\ ac = bc THEN state
          ELSE LET topBefore == ar < br \/ (ar = br /\ ac < bc)
                   sr == IF topBefore THEN ar ELSE br
                   sc == IF topBefore THEN ac ELSE bc
                   er == IF topBefore THEN br ELSE ar
                   ec == IF topBefore THEN bc ELSE ac
                   selectedTextVal ==
                     IF sr = er
                     THEN cpSlice(currentLine(state.lines, sr), sc, ec)
                     ELSE join(<<cpSliceFrom(currentLine(state.lines, sr), sc)>>
                               \o linesBetween(state.lines, sr + 1, er)
                               \o <<cpSlice(currentLine(state.lines, er), 0, ec)>>,
                               10)
               IN [state EXCEPT !.clipboard = Some(selectedTextVal)]

START_SELECTION(state) ==
  [state EXCEPT !.selectionAnchor = Some(<<state.cursorRow, state.cursorCol>>)]

\* The reducer: the state that the action (a record with a type and the
\* payload fields of that type) yields from state.
textBufferReducer(state, action) ==
  CASE action.type = "SET_TEXT" ->
         SET_TEXT(state, action.payload, action.pushToUndo)
    [] action.type = "APPLY_OPERATIONS" ->
         APPLY_OPERATIONS(state, action.payload)
    [] action.type = "MOVE" ->
         MOVE(state, action.dir, action.visualLayout)
    [] action.type = "DELETE" -> DELETE(state)
    [] action.type = "DELETE_WORD_LEFT" -> DELETE_WORD_LEFT(state)
    [] action.type = "DELETE_WORD_RIGHT" -> DELETE_WORD_RIGHT(state)
    [] action.type = "KILL_LINE_RIGHT" -> KILL_LINE_RIGHT(state)
    [] action.type = "KILL_LINE_LEFT" -> KILL_LINE_LEFT(state)
    [] action.type = "UNDO" -> UNDO(state)
    [] action.type = "REDO" -> REDO(state)
    [] action.type = "PASTE" -> PASTE(state)
    [] action.type = "REPLACE_RANGE" ->
         REPLACE_RANGE(state, action.startRow, action.startCol,
                       action.endRow, action.endCol, action.text)
    [] action.type = "MOVE_TO_OFFSET" ->
         MOVE_TO_OFFSET(state, action.text, action.offset)
    [] action.type = "COPY" -> COPY(state)
    [] action.type = "START_SELECTION" -> START_SELECTION(state)
    [] OTHER -> state

(***************************************************************************)
(* Controller (useTextBuffer): the methods that decide before they         *)
(* dispatch.  Each yields the list of actions it dispatches and the value  *)
(* it returns ("void" for none).                                           *)
(***************************************************************************)
\* Paths the host's isValidPath accepts: the one-letter path "a".

isValidPath(path) == path \in {<<97>>}

\* unescapePath of the core package: drops the backslash of an escape.
unescapePath(path) == SelectSeq(path, LAMBDA c : c # 92)

\* String.prototype.trim()
RECURSIVE trim(_)
trim(str) ==
  IF Len(str) > 0 /\ str[1] \in {32, 9, 10, 13}
  THEN trim(Tail(str))
  ELSE IF Len(str) > 0 /\ str[Len(str)] \in {32, 9, 10, 13}
       THEN trim(SubSeq(str, 1, Len(str) - 1))
       ELSE str

minLengthToInferAsDragDrop == 3

\* str.length: the number of UTF-16 units.
RECURSIVE length(_)
length(str) ==
  IF Len(str) = 0 THEN 0 ELSE utf16Length(Head(str)) + length(Tail(str))

\* insert(ch): the payload of the one insert operation it applies.
insertPayload(ch) ==
  IF \E i \in 1..Len(ch) : ch[i] \in {10, 13} THEN ch
  ELSE LET stripped == stripUnsafeCharacters(ch)
           unquoted ==
             IF length(stripped) > 2 /\ stripped[1] = 39
                /\ stripped[Len(stripped)] = 39
             THEN SubSeq(stripped, 2, Len(stripped) - 1)
             ELSE stripped
           potentialPath == trim(unquoted)
       IN IF length(stripped) >= minLengthToInferAsDragDrop
             /\ isValidPath(unescapePath(potentialPath))
          THEN <<64>> \o potentialPath
          ELSE stripped

insert(ch) ==
  [type |-> "APPLY_OPERATIONS", payload |-> <<insertOp(insertPayload(ch))>>]

newline == [type |-> "APPLY_OPERATIONS", payload |-> <<insertOp(<<10>>)>>]

\* backspace(): nothing is dispatched with the cursor at (0,0).
backspace(s) ==
  IF s.cursorCol = 0 /\ s.cursorRow = 0 THEN <<>>
  ELSE <<[type |-> "APPLY_OPERATIONS", payload |-> <<backspaceOp>>]>>

\* replaceRange(...): false and nothing dispatched for a rejected range.
replaceRange(s, startRow, startCol, endRow, endCol, text) ==
  IF \/ startRow > endRow
     \/ (startRow = endRow /\ startCol > endCol)
     \/ startRow < 0
     \/ startCol < 0
     \/ endRow >= Len(s.lines)
     \/ (endRow < Len(s.lines) /\ endCol > cpLen(s.lines[endRow + 1]))
  THEN [ret |-> "false", dispatched |-> <<>>]
  ELSE [ret |-> "true",
        dispatched |-> <<[type |-> "REPLACE_RANGE", startRow |-> startRow,
                          startCol |-> startCol, endRow |-> endRow,
                          endCol |-> endCol, text |-> text]>>]

(***************************************************************************)
(* The buffer as a state machine                                           *)
(***************************************************************************)
VARIABLES
  state,      \* the TextBufferState held by useReducer
  viewport,   \* [width, height] supplied by the host
  last,       \* the action last dispatched (without its layout or text),
              \* or the controller method last called with what it returned
  visualScrollRow,  \* the first visual row shown, held by useState
  host,       \* the terminal, the file system and the change sink:
              \* [isRaw, tmpDir, tmpFile] are the raw mode of stdin and
              \* whether a temp directory / temp file made by
              \* openInExternalEditor exists; onChange is the callback passed
              \* to the last render (undefined, or its identity), effectDeps
              \* the [text, onChange] the change effect last ran with, told
              \* the texts passed to onChange since the last action
  clearing    \* the invocation of clearCommand.action: where it is, the
              \* context it was given, the calls it has made and its promise

vars == <<state, viewport, last, visualScrollRow, host, clearing>>

\* No invocation of the clear command.
NotInvoked ==
  [pc |-> "idle", config |-> "none", fails |-> "none", calls |-> <<>>,
   reset |-> "none", promise |-> "none"]

\* The host of a buffer that no editor call has touched and that passes no
\* onChange.
QuietHost ==
  [isRaw |-> TRUE, tmpDir |-> FALSE, tmpFile |-> FALSE,
   onChange |-> undefined, effectDeps |-> null, told |-> <<>>]

\* Bounds of the explored state space.
MaxLines == 2
MaxLineLen == 2
MaxUndo == 1
MaxInitOffset == 1
MaxHistory == 101
MaxTextLen == 4
MaxLayoutLen == 4
MaxWidth == 3
MaxHeight == 2

Bounded(s) ==
  /\ Len(s.lines) <= MaxLines
  /\ \A i \in 1..Len(s.lines) : Len(s.lines[i]) <= MaxLineLen
  /\ Len(s.undoStack) <= MaxUndo
  /\ s.cursorRow <= Len(s.lines)

\* Inputs, as code-point strings: a = 97, b = 98, LF = 10, CR = 13,
\* DEL = 127, ' = 39, ESC = 27, [ = 91, m = 109.
InitialTexts == {<<>>, <<97, 10, 97>>}
Viewports == {[width |-> 2, height |-> 1]}
Directions == {"left", "right", "up", "down", "home", "end"}
OpsInputs ==
  {<<>>,
   <<insertOp(<<>>)>>,
   <<insertOp(<<97>>)>>,
   <<insertOp(<<10>>)>>,
   <<backspaceOp>>,
   <<insertOp(<<97, 97>>), backspaceOp>>}
BatchInputs ==
  OpsInputs \cup
    {<<insertOp(<<97, 127, 98>>)>>,
     <<insertOp(<<97, 98>>), backspaceOp>>,
     <<backspaceOp, insertOp(<<98>>)>>}
RangeRows == 0..1
RangeCols == 0..2
AnyRangeRows == -1..2
AnyRangeCols == -1..3

\* useTextBuffer's initialState.
initialState(initialText, initialCursorOffset) ==
  LET lines == split(initialText, 10)
      pos == calculateInitialCursorPosition(
               IF Len(lines) = 0 THEN <<<<>>>> ELSE lines, initialCursorOffset)
  IN [lines |-> IF Len(lines) = 0 THEN <<<<>>>> ELSE lines,
      cursorRow |-> pos[1],
      cursorCol |-> pos[2],
      preferredCol |-> null,
      undoStack |-> <<>>,
      redoStack |-> <<>>,
      clipboard |-> null,
      selectionAnchor |-> null]

\* lines.join('\n')
textOf(s) == join(s.lines, 10)

\* The memoised layout of the render that shows s.
layoutOf(s, width) ==
  calculateVisualLayout(s.lines, <<s.cursorRow, s.cursorCol>>, width)

\* The actions each operation can dispatch, by type.
SetTextActions ==
  {[type |-> "SET_TEXT", payload |-> t, pushToUndo |-> p] :
     t \in {<<>>, <<97, 13, 10, 97>>}, p \in BOOLEAN}
ApplyOperationsActions ==
  {[type |-> "APPLY_OPERATIONS", payload |-> ops] : ops \in OpsInputs}
MoveActions(s, width) ==
  {[type |-> "MOVE", dir |-> d, visualLayout |-> layout] :
     d \in Directions, layout \in {layoutOf(s, width)}}
ReplaceRangeActions ==
  {[type |-> "REPLACE_RANGE", startRow |-> sr, startCol |-> sc,
    endRow |-> er, endCol |-> ec, text |-> t] :
     sr \in RangeRows, sc \in RangeCols, er \in RangeRows, ec \in RangeCols,
     t \in {<<>>, <<97>>}}
MoveToOffsetActions(s) ==
  {[type |-> "MOVE_TO_OFFSET", text |-> textOf(s), offset |-> o] :
     o \in 0..(Len(textOf(s)) + 1)}

\* What `last` keeps of an action.
shown(action) ==
  CASE action.type = "MOVE" -> [type |-> "MOVE", dir |-> action.dir]
    [] action.type = "MOVE_TO_OFFSET" ->
         [type |-> "MOVE_TO_OFFSET", offset |-> action.offset]
    [] OTHER -> [type |-> action.type]

Init ==
  /\ \E t \in InitialTexts, o \in 0..MaxInitOffset : state = initialState(t, o)
  /\ viewport \in Viewports
  /\ last = [type |-> "INIT"]
  /\ visualScrollRow = 0
  /\ host = QuietHost
  /\ clearing = NotInvoked

\* dispatch(action): one reducer step, within the bounds.
Plain(type) == [type |-> type]

Dispatch(action) ==
  LET s == textBufferReducer(state, action)
  IN /\ Bounded(s)
     /\ state' = s
     /\ UNCHANGED <<viewport, visualScrollRow, host, clearing>>

SetText == \E a \in SetTextActions :
  Dispatch(a) /\ last' = shown(a)

ApplyOperations == \E a \in ApplyOperationsActions :
  Dispatch(a) /\ last' = shown(a)

Move == \E a \in MoveActions(state, viewport.width) :
  Dispatch(a) /\ last' = shown(a)

Delete == Dispatch(Plain("DELETE")) /\ last' = Plain("DELETE")

DeleteWordLeft == Dispatch(Plain("DELETE_WORD_LEFT")) /\ last' = Plain("DELETE_WORD_LEFT")

DeleteWordRight == Dispatch(Plain("DELETE_WORD_RIGHT")) /\ last' = Plain("DELETE_WORD_RIGHT")

KillLineRight == Dispatch(Plain("KILL_LINE_RIGHT")) /\ last' = Plain("KILL_LINE_RIGHT")

KillLineLeft == Dispatch(Plain("KILL_LINE_LEFT")) /\ last' = Plain("KILL_LINE_LEFT")

Undo == Dispatch(Plain("UNDO")) /\ last' = Plain("UNDO")

Redo == Dispatch(Plain("REDO")) /\ last' = Plain("REDO")

Paste == Dispatch(Plain("PASTE")) /\ last' = Plain("PASTE")

ReplaceRange == \E a \in ReplaceRangeActions :
  Dispatch(a) /\ last' = shown(a)

MoveToOffset == \E a \in MoveToOffsetActions(state) :
  Dispatch(a) /\ last' = shown(a)

Copy == Dispatch(Plain("COPY")) /\ last' = Plain("COPY")

StartSelection == Dispatch(Plain("START_SELECTION")) /\ last' = Plain("START_SELECTION")

\* Editing and history.
Spec ==
  Init /\ [][ \/ SetText
              \/ ApplyOperations
              \/ Delete
              \/ DeleteWordLeft
              \/ DeleteWordRight
              \/ KillLineRight
              \/ KillLineLeft
              \/ Undo
              \/ Redo
              \/ ReplaceRange ]_vars

(***************************************************************************)
(* Replacement of ranges, any range and any text, by the reducer action    *)
(* and by the controller's replaceRange.                                   *)
(***************************************************************************)
AnyReplaceRangeActions ==
  {[type |-> "REPLACE_RANGE", startRow |-> sr, startCol |-> sc,
    endRow |-> er, endCol |-> ec, text |-> t] :
     sr \in AnyRangeRows, sc \in AnyRangeCols, er \in AnyRangeRows,
     ec \in AnyRangeCols, t \in {<<>>, <<97>>, <<10>>, <<97, 13, 98>>}}

RECURSIVE reduceAll(_, _)
reduceAll(s, actions) ==
  IF actions = <<>> THEN s
  ELSE reduceAll(textBufferReducer(s, Head(actions)), Tail(actions))

\* A controller method: the actions it dispatches, reduced in order.
Call(dispatched) ==
  LET s == reduceAll(state, dispatched)
  IN /\ Bounded(s)
     /\ state' = s
     /\ UNCHANGED <<viewport, visualScrollRow, host, clearing>>

ReplaceRangeAny == \E a \in AnyReplaceRangeActions :
  Dispatch(a) /\ last' = shown(a)

ReplaceRangeCall == \E a \in AnyReplaceRangeActions :
  LET r == replaceRange(state, a.startRow, a.startCol, a.endRow, a.endCol,
                        a.text)
  IN Call(r.dispatched)
     /\ last' = [type |-> "replaceRange", ret |-> r.ret]

SpecReplace ==
  Init /\ [][ \/ ReplaceRangeAny
              \/ ReplaceRangeCall
              \/ Undo
              \/ Redo ]_vars

(***************************************************************************)
(* Selection, clipboard and cursor movement among edits.                   *)
(***************************************************************************)
SpecSelect ==
  Init /\ [][ \/ StartSelection
              \/ Copy
              \/ Paste
              \/ MoveToOffset
              \/ ApplyOperations ]_vars

(***************************************************************************)
(* The controller's editing methods.                                       *)
(***************************************************************************)
\* A session of calls keeps one more snapshot than a run of actions.
WithinSession(s) ==
  /\ Len(s.lines) <= MaxLines
  /\ \A i \in 1..Len(s.lines) : Len(s.lines[i]) <= MaxLineLen
  /\ Len(s.undoStack) <= MaxUndo + 1

\* A controller method called in a session.
SessionCall(dispatched) ==
  LET s == reduceAll(state, dispatched)
  IN /\ WithinSession(s)
     /\ state' = s
     /\ UNCHANGED <<viewport, visualScrollRow, host, clearing>>

InsertCall ==
  \E ch \in {<<97>>, <<97, 127, 98>>, <<10>>, <<98, 127, 10>>,
             <<39, 97, 39>>, <<27, 91, 109>>} :
  SessionCall(<<insert(ch)>>) /\ last' = [type |-> "insert", ch |-> ch]

NewlineCall == SessionCall(<<newline>>) /\ last' = Plain("newline")

BackspaceCall == SessionCall(backspace(state)) /\ last' = Plain("backspace")

UndoCall == SessionCall(<<Plain("UNDO")>>) /\ last' = Plain("undo")

RedoCall == SessionCall(<<Plain("REDO")>>) /\ last' = Plain("redo")

ApplyOperationsCall == \E ops \in BatchInputs :
  SessionCall(<<[type |-> "APPLY_OPERATIONS", payload |-> ops]>>)
  /\ last' = [type |-> "applyOperations", ops |-> ops]

SpecController ==
  Init /\ [][ \/ InsertCall
              \/ ApplyOperationsCall
              \/ NewlineCall
              \/ BackspaceCall
              \/ UndoCall
              \/ RedoCall ]_vars

(***************************************************************************)
(* A long session of typing, undoing and redoing: the history grows past   *)
(* historyLimit.                                                           *)
(***************************************************************************)
WithinHistory(s) == Len(textOf(s)) <= MaxHistory

\* A controller method called in a long session.
HistoryCall(dispatched) ==
  LET s == reduceAll(state, dispatched)
  IN /\ WithinHistory(s)
     /\ state' = s
     /\ UNCHANGED <<viewport, visualScrollRow, host, clearing>>

HistoryInsert ==
  HistoryCall(<<insert(<<97>>)>>) /\ last' = Plain("insert")

HistoryUndo == HistoryCall(<<Plain("UNDO")>>) /\ last' = Plain("undo")

HistoryRedo == HistoryCall(<<Plain("REDO")>>) /\ last' = Plain("redo")

InitHistory ==
  /\ state = initialState(<<>>, 0)
  /\ viewport \in Viewports
  /\ last = [type |-> "INIT"]
  /\ visualScrollRow = 0
  /\ host = QuietHost
  /\ clearing = NotInvoked

SpecHistory ==
  InitHistory /\ [][ \/ HistoryInsert
                     \/ HistoryUndo
                     \/ HistoryRedo ]_vars

(***************************************************************************)
(* Properties                                                              *)
(***************************************************************************)
\* The lines and cursor of a state.
shot(s) == snapshotOf(s)

top(stack) == stack[Len(stack)]

\* The actions the specification calls mutating.
MutatingTypes ==
  {"DELETE", "DELETE_WORD_LEFT", "DELETE_WORD_RIGHT", "KILL_LINE_RIGHT",
   "KILL_LINE_LEFT", "PASTE"}

MutatingActions ==
  SetTextActions \cup ApplyOperationsActions \cup ReplaceRangeActions
    \cup {Plain(t) : t \in MutatingTypes}

\* s with nothing or a text on its clipboard.
WithClipboard(s) ==
  {s} \cup {[s EXCEPT !.clipboard = Some(c)] : c \in {<<97>>, <<97, 13, 98>>}}

\* The pairs <<state, mutating action>> at the current state.
MutatingSteps ==
  {<<state, a>> : a \in MutatingActions}
    \cup {<<s, Plain("PASTE")>> : s \in WithClipboard(state)}

\* The action is not SET_TEXT with pushToUndo false and is no no-op.
Effective(s, a) ==
  /\ textBufferReducer(s, a) # s
  /\ ~(a.type = "SET_TEXT" /\ a.pushToUndo = FALSE)

\* C1: after any sequence of engine actions lines is non-empty and the
\* cursor is a valid position: 0 <= cursorRow < number of lines and
\* 0 <= cursorCol <= length of lines[cursorRow].
C1_CursorValid ==
  /\ Len(state.lines) > 0
  /\ 0 <= state.cursorRow
  /\ state.cursorRow < Len(state.lines)
  /\ 0 <= state.cursorCol
  /\ state.cursorCol <= cpLen(state.lines[state.cursorRow + 1])

\* C2 as stated: for every reachable state s and every mutating action a,
\* a and then UNDO yields the lines and cursor of s.
C2_UndoRestoresAfterAnyMutatingAction ==
  \A step \in MutatingSteps :
    shot(UNDO(textBufferReducer(step[1], step[2]))) = shot(step[1])

\* C2: for every reachable state s and every mutating action a that changes
\* the state (no no-op, and no SET_TEXT with pushToUndo false), a and then
\* UNDO yields the lines and cursor of s.
C2_UndoRestoresAfterEffectiveAction ==
  \A step \in MutatingSteps :
    Effective(step[1], step[2]) =>
      shot(UNDO(textBufferReducer(step[1], step[2]))) = shot(step[1])

\* An UNDO has just taken back an action that had changed the lines.
C2_Witness ==
  /\ last.type = "UNDO"
  /\ state.redoStack # <<>>
  /\ top(state.redoStack).lines # state.lines

\* C3: UNDO and REDO are mutually inverse: with a non-empty undo stack UNDO
\* then REDO restores lines, cursor and both stacks; with a non-empty redo
\* stack REDO then UNDO restores them likewise.
C3_UndoRedoInverse ==
  /\ Len(state.undoStack) > 0 => REDO(UNDO(state)) = state
  /\ Len(state.redoStack) > 0 => UNDO(REDO(state)) = state

\* Both stacks hold several snapshots after an undo.
C3_Witness ==
  /\ last.type = "undo"
  /\ Len(state.undoStack) > 1
  /\ Len(state.redoStack) > 1

\* C4: the undo stack holds at most historyLimit snapshots; a push onto a
\* full stack, by any action that pushes, drops the oldest snapshot and
\* keeps the newest; REDO never takes the stack past the limit.
C4_UndoStackLimit ==
  /\ Len(state.undoStack) <= historyLimit
  /\ Len(REDO(state).undoStack) <= historyLimit
  /\ Len(state.undoStack) = historyLimit =>
       \A a \in MutatingActions \cup {insert(<<97>>)} :
         Effective(state, a) =>
           textBufferReducer(state, a).undoStack
             = Tail(state.undoStack) \o <<shot(state)>>

\* The stack is full and its oldest snapshot, the empty buffer, is gone.
C4_Witness ==
  /\ last.type = "insert"
  /\ Len(state.undoStack) = historyLimit
  /\ state.undoStack[1].lines # <<<<>>>>

\* C5 as stated: after any mutating action the redo stack is empty and the
\* top of the undo stack is the state held before the action.
C5_PushAfterAnyMutatingAction ==
  \A step \in MutatingSteps :
    LET s == textBufferReducer(step[1], step[2])
    IN /\ s.redoStack = <<>>
       /\ s.undoStack # <<>>
       /\ top(s.undoStack) = shot(step[1])

\* C5: after any mutating action that changes the state (no no-op, and no
\* SET_TEXT with pushToUndo false) the redo stack is empty and the top of
\* the undo stack is the state held before the action.
C5_PushAfterEffectiveAction ==
  \A step \in MutatingSteps :
    Effective(step[1], step[2]) =>
      LET s == textBufferReducer(step[1], step[2])
      IN /\ s.redoStack = <<>>
         /\ s.undoStack # <<>>
         /\ top(s.undoStack) = shot(step[1])

\* KILL_LINE_LEFT has just removed text and left its snapshot.
C5_Witness ==
  /\ last.type = "KILL_LINE_LEFT"
  /\ state.redoStack = <<>>
  /\ state.undoStack # <<>>
  /\ top(state.undoStack).lines # state.lines

\* The operations of a batch, each dispatched alone.
oneByOne(ops) ==
  [i \in 1..Len(ops) |-> [type |-> "APPLY_OPERATIONS", payload |-> <<ops[i]>>]]

\* What C6 says of APPLY_OPERATIONS(ops) at the current state.
oneUndoStep(ops) ==
  LET s == APPLY_OPERATIONS(state, ops)
  IN /\ shot(s) = shot(reduceAll(state, oneByOne(ops)))
     /\ s.undoStack = Append(state.undoStack, shot(state))
     /\ shot(UNDO(s)) = shot(state)

\* C6 as stated: a single APPLY_OPERATIONS(ops) applies its operations in
\* the given order, pushes exactly one undo snapshot, and one UNDO reverts
\* the whole batch.
C6_AnyBatchIsOneUndoStep == \A ops \in BatchInputs : oneUndoStep(ops)

\* C6: a single APPLY_OPERATIONS(ops) whose expansion holds an operation
\* (ops is not empty and not only inserts of the empty string) applies its
\* operations in the given order, pushes exactly one undo snapshot, and one
\* UNDO reverts the whole batch.
C6_BatchIsOneUndoStep ==
  \A ops \in BatchInputs : Len(expandOps(ops)) > 0 => oneUndoStep(ops)

\* A batch of two operations has changed the lines and left one snapshot.
C6_Witness ==
  /\ last.type = "applyOperations"
  /\ Len(last.ops) = 2
  /\ Len(state.undoStack) = 1
  /\ top(state.undoStack).lines # state.lines

\* The empty buffer with the cursor at (0,0).
emptyBuffer(s) == s.lines = <<<<>>>> /\ s.cursorRow = 0 /\ s.cursorCol = 0

\* C7 as stated: insert("a\x7Fb") on an empty buffer with cursor (0,0)
\* gives lines = ["b"] and cursor (0,1), and a single undo reverts it.
C7_InsertTreatsDelAsBackspace ==
  emptyBuffer(state) =>
    LET s == textBufferReducer(state, insert(<<97, 127, 98>>))
    IN /\ shot(s) = [lines |-> <<<<98>>>>, cursorRow |-> 0, cursorCol |-> 1]
       /\ shot(UNDO(s)) = shot(state)

\* C7: applyOperations with a single insert whose payload holds 0x7F between
\* other characters treats the 0x7F as a backspace in sequence: the insert
\* of "a\x7Fb" on an empty buffer with cursor (0,0) gives lines = ["b"] and
\* cursor (0,1), and a single undo reverts it.  insert(s) does the same only
\* when s holds a newline or a carriage return; otherwise it strips the 0x7F
\* first, so that insert("a\x7Fb") gives lines = ["ab"] and cursor (0,2).
C7_ApplyOperationsTreatsDelAsBackspace ==
  LET s == APPLY_OPERATIONS(state, <<insertOp(<<97, 127, 98>>)>>)
      t == textBufferReducer(state, insert(<<98, 127, 10>>))
      u == textBufferReducer(state, insert(<<97, 127, 98>>))
  IN /\ shot(s) = shot(APPLY_OPERATIONS(state,
                    <<insertOp(<<97>>), backspaceOp, insertOp(<<98>>)>>))
     /\ shot(UNDO(s)) = shot(state)
     /\ shot(t) = shot(APPLY_OPERATIONS(state,
                    <<insertOp(<<98>>), backspaceOp, insertOp(<<10>>)>>))
     /\ shot(UNDO(t)) = shot(state)
     /\ shot(u) = shot(APPLY_OPERATIONS(state, <<insertOp(<<97, 98>>)>>))
     /\ shot(UNDO(u)) = shot(state)
     /\ emptyBuffer(state) =>
          /\ shot(s) = [lines |-> <<<<98>>>>, cursorRow |-> 0, cursorCol |-> 1]
          /\ shot(u) = [lines |-> <<<<97, 98>>>>, cursorRow |-> 0,
                        cursorCol |-> 2]

\* applyOperations has inserted "a\x7Fb" into the empty buffer.
C7_Witness ==
  /\ last.type = "applyOperations"
  /\ last.ops = <<insertOp(<<97, 127, 98>>)>>
  /\ state.lines = <<<<98>>>>
  /\ state.cursorCol = 1
  /\ Len(state.undoStack) = 1
  /\ top(state.undoStack).lines = <<<<>>>>

\* C8: the selection anchor, if set, is a valid position of the current
\* lines: row < number of lines, col <= length of that line.
C8_AnchorValid ==
  state.selectionAnchor # null =>
    LET anchor == Val(state.selectionAnchor)
    IN /\ anchor[1] < Len(state.lines)
       /\ anchor[2] <= cpLen(state.lines[anchor[1] + 1])

\* The ranges C9 names: start after end, a row out of bounds, or a column
\* outside its line.
outsideBuffer(lines, sRow, sCol, eRow, eCol) ==
  \/ sRow > eRow
  \/ (sRow = eRow /\ sCol > eCol)
  \/ sRow < 0 \/ sRow >= Len(lines)
  \/ eRow < 0 \/ eRow >= Len(lines)
  \/ sCol < 0 \/ sCol > cpLen(lines[sRow + 1])
  \/ eCol < 0 \/ eCol > cpLen(lines[eRow + 1])

\* C9: REPLACE_RANGE returns the state unchanged whenever the start is after
\* the end, a row is out of bounds, or a column is outside its line;
\* replaceRange returns false in exactly those cases.
C9_InvalidRangeRejected ==
  \A a \in AnyReplaceRangeActions :
    LET invalid == outsideBuffer(state.lines, a.startRow, a.startCol,
                                 a.endRow, a.endCol)
        r == replaceRange(state, a.startRow, a.startCol, a.endRow, a.endCol,
                          a.text)
    IN /\ invalid => textBufferReducer(state, a) = state
       /\ r.ret = "false" <=> invalid

\* The offset in join(lines) of column 0 of a row.
RECURSIVE rowOffset(_, _)
rowOffset(lines, row) ==
  IF row = 0 THEN 0 ELSE rowOffset(lines, row - 1) + cpLen(lines[row]) + 1

\* The logical position at the end of a text.
RECURSIVE endOf(_)
endOf(str) ==
  IF Len(str) = 0 THEN <<0, 0>>
  ELSE LET e == endOf(SubSeq(str, 1, Len(str) - 1))
       IN IF str[Len(str)] = 10 THEN <<e[1] + 1, 0>> ELSE <<e[1], e[2] + 1>>

\* C10: after a REPLACE_RANGE with a valid range the buffer is the text
\* before the range start, the replacement text with newlines normalised,
\* and the text after the range end, stored as lines split on the newline;
\* the cursor is right after the last inserted code point.
C10_ReplaceRangeResult ==
  \A a \in AnyReplaceRangeActions :
    ~outsideBuffer(state.lines, a.startRow, a.startCol, a.endRow, a.endCol) =>
      LET text == textOf(state)
          startOffset == rowOffset(state.lines, a.startRow) + a.startCol
          endOffset == rowOffset(state.lines, a.endRow) + a.endCol
          inserted == SubSeq(text, 1, startOffset)
                        \o replaceCR(replaceCRLF(a.text))
          s == textBufferReducer(state, a)
      IN /\ s.lines = split(inserted \o SubSeq(text, endOffset + 1, Len(text)),
                            10)
         /\ <<s.cursorRow, s.cursorCol>> = endOf(inserted)

\* C11: the no-op actions return the current state unchanged in every
\* field: UNDO on an empty undo stack, REDO on an empty redo stack, PASTE
\* with no clipboard, and a single backspace with the cursor at (0,0).
C11_NoopsReturnState ==
  /\ Len(state.undoStack) = 0 => UNDO(state) = state
  /\ Len(state.redoStack) = 0 => REDO(state) = state
  /\ state.clipboard = null => PASTE(state) = state
  /\ (state.cursorRow = 0 /\ state.cursorCol = 0) =>
       APPLY_OPERATIONS(state, <<backspaceOp>>) = state

\* The strings inserted for C12: a, b, LF = 10, CR = 13, DEL = 127 and the
\* escape sequence ESC [ m.
RoundTripInputs ==
  {<<>>, <<97>>, <<97, 10, 98>>, <<13, 10>>, <<97, 13>>, <<10, 13>>,
   <<27, 91, 109, 97>>, <<127, 97>>}

\* s after k single backspaces.
RECURSIVE backspaces(_, _)
backspaces(s, k) ==
  IF k = 0 THEN s
  ELSE backspaces(APPLY_OPERATIONS(s, <<backspaceOp>>), k - 1)

\* The cursor of s is a position of its lines.
cursorValid(s) ==
  /\ 0 <= s.cursorRow
  /\ s.cursorRow < Len(s.lines)
  /\ 0 <= s.cursorCol
  /\ s.cursorCol <= cpLen(s.lines[s.cursorRow + 1])

\* C12 as stated: inserting s and then applying backspace k times, with k
\* the number of code points of stripUnsafe(s), returns lines and cursor to
\* their pre-insert values.
C12_InsertThenBackspaces ==
  \A str \in RoundTripInputs :
    shot(backspaces(APPLY_OPERATIONS(state, <<insertOp(str)>>),
                    cpLen(stripUnsafeCharacters(str)))) = shot(state)

\* C12: in a state whose cursor is a position of the lines, inserting a
\* string s that holds no 0x7F and then applying backspace k times, with k
\* the number of code points of stripUnsafe(s with CR LF and CR replaced by
\* LF), returns lines and cursor to their pre-insert values.
C12_InsertThenBackspacesNormalised ==
  \A str \in RoundTripInputs :
    (cursorValid(state) /\ \A i \in 1..Len(str) : str[i] # 127) =>
      shot(backspaces(APPLY_OPERATIONS(state, <<insertOp(str)>>),
             cpLen(stripUnsafeCharacters(replaceCR(replaceCRLF(str))))))
        = shot(state)

\* An insert followed by one backspace has brought the first lines back.
C12_Witness ==
  /\ last.type = "backspace"
  /\ Len(state.undoStack) = 2
  /\ state.undoStack[1].lines = state.lines
  /\ state.undoStack[2].lines # state.lines

(***************************************************************************)
(* Offsets: moveToOffset on every text over a and LF.                      *)
(***************************************************************************)

InitOffset ==
  /\ \E t \in UNION {[1..n -> {97, 10}] : n \in 0..MaxTextLen} : state = initialState(t, 0)
  /\ viewport \in Viewports
  /\ last = [type |-> "INIT"]
  /\ visualScrollRow = 0
  /\ host = QuietHost
  /\ clearing = NotInvoked

\* moveToOffset(offset), up to one past the end of the text.
MoveToOffsetCall == \E o \in 0..(Len(textOf(state)) + 1) :
  /\ state' = textBufferReducer(state,
       [type |-> "MOVE_TO_OFFSET", text |-> textOf(state), offset |-> o])
  /\ last' = [type |-> "moveToOffset", offset |-> o]
  /\ UNCHANGED <<viewport, visualScrollRow, host, clearing>>

SpecOffset == InitOffset /\ [][MoveToOffsetCall]_vars

\* C13: for every text and every offset up to its length offsetToLogicalPos
\* returns a position of the text split on newlines whose linear offset is
\* the offset; the offset just past the separator after a line that is not
\* the last maps to column 0 of the next line; any larger offset maps to the
\* end of the last line.
C13_OffsetToLogicalPos ==
  LET text == textOf(state)
      lines == split(text, 10)
  IN /\ \A o \in 0..(Len(text) + 2) :
          LET pos == offsetToLogicalPos(text, o)
          IN /\ 0 <= pos[1] /\ pos[1] < Len(lines)
             /\ 0 <= pos[2] /\ pos[2] <= cpLen(lines[pos[1] + 1])
             /\ o <= Len(text) => rowOffset(lines, pos[1]) + pos[2] = o
             /\ o > Len(text) =>
                  pos = <<Len(lines) - 1, cpLen(lines[Len(lines)])>>
     /\ \A i \in 0..(Len(lines) - 2) :
          offsetToLogicalPos(text, rowOffset(lines, i + 1)) = <<i + 1, 0>>

\* moveToOffset has put the cursor just past the first separator.
C13_Witness ==
  /\ last.type = "moveToOffset"
  /\ Len(state.lines) > 1
  /\ last.offset = cpLen(state.lines[1]) + 1
  /\ state.cursorRow = 1
  /\ state.cursorCol = 0

(***************************************************************************)
(* Layout: every text over a, space, a wide ideograph and LF, laid out at  *)
(* every viewport width.                                                   *)
(***************************************************************************)

LayoutViewports == {[width |-> w, height |-> 1] : w \in 1..MaxWidth}

InitLayout ==
  /\ \E t \in UNION {[1..n -> {97, 32, 20013, 10}] : n \in 0..MaxLayoutLen} :
       state = initialState(t, 0)
  /\ viewport \in LayoutViewports
  /\ last = [type |-> "INIT"]
  /\ visualScrollRow = 0
  /\ host = QuietHost
  /\ clearing = NotInvoked

\* The host changes the viewport; the render that follows lays the lines
\* out at the new width.
Resize == \E v \in LayoutViewports :
  /\ viewport' = v
  /\ last' = [type |-> "render",
              visualLines |-> layoutOf(state, v.width).visualLines]
  /\ UNCHANGED <<state, visualScrollRow, host, clearing>>

SpecLayout == InitLayout /\ [][Resize]_vars

\* The terminal cells a visual line occupies.
RECURSIVE visualWidth(_)
visualWidth(str) ==
  IF Len(str) = 0 THEN 0 ELSE stringWidth(Head(str)) + visualWidth(Tail(str))

\* C14: every visual line the layouter produces has visual width <= the
\* viewport width, except a visual line that is a single code point wider
\* than the viewport.
C14_VisualLinesFit ==
  LET visualLines == layoutOf(state, viewport.width).visualLines
  IN \A v \in 1..Len(visualLines) :
       \/ visualWidth(visualLines[v]) <= viewport.width
       \/ /\ Len(visualLines[v]) = 1
          /\ stringWidth(visualLines[v][1]) > viewport.width

\* A render has wrapped a line into a visual line that fills the viewport
\* and a visual line that is one ideograph wider than the viewport.
C14_Witness ==
  /\ last.type = "render"
  /\ Len(last.visualLines) > Len(state.lines)
  /\ \E v \in 1..Len(last.visualLines) :
       visualWidth(last.visualLines[v]) = viewport.width
  /\ \E v \in 1..Len(last.visualLines) :
       visualWidth(last.visualLines[v]) > viewport.width

\* The visual chunks of logical line i from chunk k on, joined, with one
\* space wherever the next chunk starts one past the end of the chunk.
RECURSIVE rejoined(_, _, _, _)
rejoined(layout, i, k, trailing) ==
  LET map == layout.logicalToVisualMap[i]
      chunk == layout.visualLines[map[k][1] + 1]
      end == map[k][2] + cpLen(chunk)
  IN IF k = Len(map)
     THEN chunk \o (IF trailing THEN <<32>> ELSE <<>>)
     ELSE chunk \o (IF map[k + 1][2] = end + 1 THEN <<32>> ELSE <<>>)
                \o rejoined(layout, i, k + 1, trailing)

InitMove ==
  /\ \E t \in UNION {[1..n -> {97, 32, 10}] : n \in 0..MaxLayoutLen} : state = initialState(t, 0)
  /\ viewport \in LayoutViewports
  /\ last = [type |-> "INIT"]
  /\ visualScrollRow = 0
  /\ host = QuietHost
  /\ clearing = NotInvoked

MoveCall == \E a \in MoveActions(state, viewport.width) :
  /\ state' = textBufferReducer(state, a)
  /\ last' = [type |-> "move", dir |-> a.dir,
              from |-> a.visualLayout.visualCursor]
  /\ UNCHANGED <<viewport, visualScrollRow, host, clearing>>

SpecMove == InitMove /\ [][MoveCall]_vars

\* The visual cursor of the render that follows MOVE dir.
movedCursor(dir) ==
  LET layout == layoutOf(state, viewport.width)
      moved == textBufferReducer(state,
                 [type |-> "MOVE", dir |-> dir, visualLayout |-> layout])
  IN layoutOf(moved, viewport.width).visualCursor

\* C16 as stated: MOVE left at column 0 of visual row r > 0 leaves the
\* recomputed visual cursor on row r-1, and MOVE right at the end of a visual
\* row r that is not the last leaves it on row r+1 at column 0.
C16_MoveAcrossRowEdges ==
  LET layout == layoutOf(state, viewport.width)
      row == layout.visualCursor[1]
      col == layout.visualCursor[2]
  IN /\ (col = 0 /\ row > 0) => movedCursor("left")[1] = row - 1
     /\ (col = visLineLen(layout.visualLines, row)
         /\ row < Len(layout.visualLines) - 1)
          => movedCursor("right") = <<row + 1, 0>>

\* The state and the visual cursor of the render that follow MOVE dir.
movedState(dir) ==
  textBufferReducer(state,
    [type |-> "MOVE", dir |-> dir,
     visualLayout |-> layoutOf(state, viewport.width)])

\* C17 as stated: MOVE up from visual row r > 0 leaves the recomputed visual
\* cursor on row r-1, and MOVE down from a row r that is not the last leaves
\* it on row r+1, at visual column min(p, length of the destination row),
\* where p is preferredCol if set and the visual column before the move
\* otherwise; preferredCol is then p.
C17_MoveUpDown ==
  LET layout == layoutOf(state, viewport.width)
      row == layout.visualCursor[1]
      col == layout.visualCursor[2]
      p == IF state.preferredCol = null THEN col ELSE Val(state.preferredCol)
      landing(r) == <<r, clamp(p, 0, visLineLen(layout.visualLines, r))>>
  IN /\ row > 0 =>
          /\ movedCursor("up") = landing(row - 1)
          /\ movedState("up").preferredCol = Some(p)
     /\ row < Len(layout.visualLines) - 1 =>
          /\ movedCursor("down") = landing(row + 1)
          /\ movedState("down").preferredCol = Some(p)

\* C18 as stated: MOVE end followed, with the layout recomputed, by MOVE end
\* again leaves the cursor where the first MOVE end put it.
C18_MoveEndStable ==
  LET once == movedState("end")
      twice == textBufferReducer(once,
                 [type |-> "MOVE", dir |-> "end",
                  visualLayout |-> layoutOf(once, viewport.width)])
  IN /\ twice.cursorRow = once.cursorRow
     /\ twice.cursorCol = once.cursorCol
     /\ layoutOf(twice, viewport.width).visualCursor
          = layoutOf(once, viewport.width).visualCursor

(***************************************************************************)
(* The preferred column: vertical and horizontal motion interleaved with   *)
(* the edits at the cursor.                                                *)
(***************************************************************************)
SpecPreferred ==
  Init /\ [][ \/ Move
              \/ Delete
              \/ KillLineRight
              \/ KillLineLeft
              \/ Undo ]_vars

\* C19 as stated: preferredCol is null after every explicit horizontal
\* motion (MOVE left, right, home, end, MOVE_TO_OFFSET) and after every
\* non-motion edit that changes the buffer (SET_TEXT, APPLY_OPERATIONS,
\* DELETE, DELETE_WORD_LEFT, DELETE_WORD_RIGHT, KILL_LINE_RIGHT,
\* KILL_LINE_LEFT, REPLACE_RANGE, PASTE).
C19_PreferredColReset ==
  /\ \A a \in MoveActions(state, viewport.width) :
       a.dir \in {"left", "right", "home", "end"}
         => textBufferReducer(state, a).preferredCol = null
  /\ \A a \in MoveToOffsetActions(state) :
       textBufferReducer(state, a).preferredCol = null
  /\ \A s \in WithClipboard(state), a \in MutatingActions :
       textBufferReducer(s, a).lines # s.lines
         => textBufferReducer(s, a).preferredCol = null

(***************************************************************************)
(* Vertical scroll: the effect that follows every render whose visual      *)
(* cursor, scroll row or viewport changed.  React runs the effects of a    *)
(* render before it processes the next update, so a handler runs only      *)
(* after the effect of the previous render has run.                        *)
(***************************************************************************)

ScrollViewports ==
  {[width |-> w, height |-> h] : w \in 1..2, h \in 1..MaxHeight}

\* The effect that moves the scroll row one row too far down.
newVisualScrollRowBelow(visualCursor, scrollRow, height) ==
  IF visualCursor[1] < scrollRow THEN visualCursor[1]
  ELSE IF visualCursor[1] >= scrollRow + height
       THEN visualCursor[1] - height
       ELSE scrollRow

newVisualScrollRow(visualCursor, scrollRow, height) ==
  IF visualCursor[1] < scrollRow THEN visualCursor[1]
  ELSE IF visualCursor[1] >= scrollRow + height
       THEN visualCursor[1] - height + 1
       ELSE scrollRow

\* The effect of the last render has run.
effectRan == last.type = "scrollEffect"

\* The row of the visual cursor that a render of s in viewport v produces.
renderedRow(s, v) == layoutOf(s, v.width).visualCursor[1]

InitScroll ==
  /\ \E t \in UNION {[1..n -> {97, 10}] : n \in 0..(MaxHeight + 1)} : state = initialState(t, 0)
  /\ viewport \in ScrollViewports
  /\ last = [type |-> "INIT", row |-> renderedRow(state, viewport)]
  /\ visualScrollRow = 0
  /\ host = QuietHost
  /\ clearing = NotInvoked

ScrollMove == \E a \in MoveActions(state, viewport.width) :
  /\ effectRan
  /\ state' = textBufferReducer(state, a)
  /\ last' = [type |-> "move", row |-> renderedRow(state', viewport)]
  /\ UNCHANGED <<viewport, visualScrollRow, host, clearing>>

ScrollResize == \E v \in ScrollViewports :
  /\ effectRan
  /\ v # viewport
  /\ viewport' = v
  /\ last' = [type |-> "resize", row |-> renderedRow(state, v)]
  /\ UNCHANGED <<state, visualScrollRow, host, clearing>>

\* The effect reads the visual cursor of the render that scheduled it.
ScrollEffect ==
  /\ ~effectRan
  /\ visualScrollRow' =
       newVisualScrollRow(<<last.row, 0>>, visualScrollRow, viewport.height)
  /\ last' = [type |-> "scrollEffect", from |-> visualScrollRow,
              row |-> last.row]
  /\ UNCHANGED <<state, viewport, host, clearing>>

\* The effect is a scheduled callback: once a render has scheduled it, it
\* runs.
FairSpecScroll ==
  /\ InitScroll
  /\ [][ \/ ScrollMove
         \/ ScrollResize
         \/ ScrollEffect ]_vars
  /\ WF_vars(ScrollEffect)

\* The visual cursor row of the last render is shown when the first row
\* shown is row.
inView(row) == row <= last.row /\ last.row < row + viewport.height

\* The last render laid out the current state in the current viewport.
rendered == last.row = renderedRow(state, viewport)

Distance(a, b) == IF a >= b THEN a - b ELSE b - a

\* C20: after every state change or viewport change the scroll effect runs,
\* and once it has run visualScrollRow <= visualCursor.row <
\* visualScrollRow + viewport.height; the effect moves the scroll row by the
\* minimum amount that shows the cursor (not at all if it was shown).
C20_ScrollFollowsCursor ==
  /\ [](rendered /\ (effectRan => inView(visualScrollRow)))
  /\ [][effectRan' /\ ~effectRan =>
          \A row \in 0..last'.row :
            inView(row)' => Distance(visualScrollRow', visualScrollRow)
                              <= Distance(row, visualScrollRow)]_vars
  /\ (~effectRan ~> effectRan)

\* The effect has scrolled to a cursor that a move or a resize had put out
\* of view.
C20_Witness ==
  /\ effectRan
  /\ last.from # visualScrollRow
  /\ visualScrollRow > 0
  /\ rendered
  /\ inView(visualScrollRow)

(***************************************************************************)
(* Key handling: handleInput(key) in the render that shows s at the given  *)
(* viewport width.  The closure reads text, cursorRow and cursorCol of     *)
(* that render, before and after the dispatch.                             *)
(***************************************************************************)
del == [type |-> "DELETE"]

move(s, width, dir) ==
  [type |-> "MOVE", dir |-> dir, visualLayout |-> layoutOf(s, width)]

\* The actions handleInput dispatches for key, in order.
handleInputDispatched(s, width, key) ==
  LET input == key.sequence
  IN IF key.name = "escape" THEN <<>>
     ELSE IF key.name = "return" \/ input = <<13>> \/ input = <<10>>
     THEN <<newline>>
     ELSE IF key.name = "left" /\ ~key.meta /\ ~key.ctrl
     THEN <<move(s, width, "left")>>
     ELSE IF key.name = "right" /\ ~key.meta /\ ~key.ctrl
     THEN <<move(s, width, "right")>>
     ELSE IF key.name = "up" THEN <<move(s, width, "up")>>
     ELSE IF key.name = "down" THEN <<move(s, width, "down")>>
     ELSE IF key.name = "home" THEN <<move(s, width, "home")>>
     ELSE IF key.name = "end" THEN <<move(s, width, "end")>>
     ELSE IF key.name = "backspace" \/ input = <<127>> THEN backspace(s)
     ELSE IF key.name = "delete" \/ (key.ctrl /\ key.name = "d") THEN <<del>>
     ELSE IF input # <<>> /\ ~key.ctrl /\ ~key.meta THEN <<insert(input)>>
     ELSE <<>>

\* handleInput(key): what it returns and what it dispatches.  text,
\* cursorRow and cursorCol are constants of the render, the same values
\* when beforeText and beforeCursor are taken and when they are compared.
handleInput(s, width, key) ==
  LET text == textOf(s)
      cursorRow == s.cursorRow
      cursorCol == s.cursorCol
      beforeText == text
      beforeCursor == <<cursorRow, cursorCol>>
      textChanged == text # beforeText
      cursorChanged == cursorRow # beforeCursor[1] \/ cursorCol # beforeCursor[2]
  IN [ret |-> IF key.name = "escape" THEN "false"
              ELSE IF textChanged \/ cursorChanged THEN "true" ELSE "false",
      dispatched |-> handleInputDispatched(s, width, key)]

\* Keys: a name, the two modifiers and the sequence the terminal sent.
KeySequences ==
  [escape |-> <<27>>, return |-> <<13>>, left |-> <<27, 91, 68>>,
   right |-> <<27, 91, 67>>, up |-> <<27, 91, 65>>, down |-> <<27, 91, 66>>,
   home |-> <<27, 91, 72>>, end |-> <<27, 91, 70>>, backspace |-> <<127>>,
   delete |-> <<27, 91, 51, 126>>, d |-> <<100>>, a |-> <<97>>,
   f1 |-> <<27, 79, 80>>, tab |-> <<9>>]

KeyInputs ==
  {[name |-> n, ctrl |-> c, meta |-> m, sequence |-> KeySequences[n]] :
     n \in DOMAIN KeySequences, c \in BOOLEAN, m \in BOOLEAN}

HandleInputCall == \E key \in KeyInputs :
  LET r == handleInput(state, viewport.width, key)
  IN Call(r.dispatched)
     /\ last' = [type |-> "handleInput", name |-> key.name, ret |-> r.ret]

SpecInput ==
  Init /\ [][ \/ HandleInputCall
              \/ Undo ]_vars

\* C21 as stated: handleInput(key) returns true if and only if processing
\* the key changed the buffer text or the cursor position.
C21_HandleInputReportsChange ==
  \A key \in KeyInputs :
    LET r == handleInput(state, viewport.width, key)
        s == reduceAll(state, r.dispatched)
    IN r.ret = "true" <=>
         \/ textOf(s) # textOf(state)
         \/ <<s.cursorRow, s.cursorCol>> # <<state.cursorRow, state.cursorCol>>

\* The keys of the default mapping: return, CR or LF; the six directions
\* without ctrl and meta; backspace or DEL; delete or ctrl-d; any other
\* printable sequence without ctrl and meta.
mappedKey(key) ==
  /\ key.name # "escape"
  /\ \/ key.name = "return" \/ key.sequence \in {<<13>>, <<10>>}
     \/ key.name \in Directions /\ ~key.ctrl /\ ~key.meta
     \/ key.name = "backspace" \/ key.sequence = <<127>>
     \/ key.name = "delete" \/ (key.ctrl /\ key.name = "d")
     \/ /\ key.name \notin Directions
        /\ key.sequence # <<>>
        /\ \A i \in 1..Len(key.sequence) :
             key.sequence[i] >= 32 /\ key.sequence[i] # 127
        /\ ~key.ctrl /\ ~key.meta

\* C22 as stated: handleInput maps left, right, up, down, home and end to
\* MOVE only when neither ctrl nor meta is held, and a key outside the
\* default mapping leaves lines, cursor and history unchanged.
C22_UnmappedKeysChangeNothing ==
  \A key \in KeyInputs :
    LET r == handleInput(state, viewport.width, key)
        s == reduceAll(state, r.dispatched)
    IN /\ (key.name \in Directions /\ ~key.ctrl /\ ~key.meta)
            => r.dispatched = <<move(state, viewport.width, key.name)>>
       /\ (\E i \in 1..Len(r.dispatched) : r.dispatched[i].type = "MOVE")
            => ~key.ctrl /\ ~key.meta
       /\ ~mappedKey(key) =>
            /\ s.lines = state.lines
            /\ s.cursorRow = state.cursorRow
            /\ s.cursorCol = state.cursorCol
            /\ s.undoStack = state.undoStack
            /\ s.redoStack = state.redoStack

(***************************************************************************)
(* The external editor.  openInExternalEditor has no await: it runs to its *)
(* end in one step.  o is what the host does during the call: the step     *)
(* that fails (or "none"), the text the editor saved, and the clean-up     *)
(* call that fails (or "none").  stdin and setRawMode are the ones the     *)
(* host passed to the hook.                                                *)
(***************************************************************************)
\* The editor that leaves the snapshot dispatch out.
openInExternalEditorWithoutSnapshot(s, h, o) ==
  [dispatched |->
     IF o.fail = "none"
     THEN <<[type |-> "SET_TEXT", payload |-> replaceCROptLF(o.newText),
             pushToUndo |-> FALSE]>>
     ELSE <<>>,
   host |-> h,
   threw |-> FALSE]

openInExternalEditor(s, h, o) ==
  LET text == textOf(s)
  IN IF o.fail = "mkdtemp"
     THEN [dispatched |-> <<>>, host |-> h, threw |-> TRUE]
     ELSE IF o.fail = "write"
     THEN [dispatched |-> <<>>, host |-> [h EXCEPT !.tmpDir = TRUE],
           threw |-> TRUE]
     ELSE LET wasRaw == h.isRaw
              \* setRawMode(false), then the finally block
              isRaw == IF wasRaw THEN TRUE ELSE FALSE
              snapshot == [type |-> "SET_TEXT", payload |-> text,
                           pushToUndo |-> TRUE]
              reload == [type |-> "SET_TEXT",
                         payload |-> replaceCROptLF(o.newText),
                         pushToUndo |-> FALSE]
          IN [dispatched |-> IF o.fail = "none" THEN <<snapshot, reload>>
                             ELSE <<snapshot>>,
              host |-> [h EXCEPT
                         !.isRaw = isRaw,
                         !.tmpFile = h.tmpFile \/ o.cleanup = "unlink",
                         !.tmpDir = h.tmpDir
                                      \/ o.cleanup \in {"unlink", "rmdir"}],
              threw |-> FALSE]



EditorOutcomes ==
  {[fail |-> f, newText |-> t, cleanup |-> c] :
     f \in {"mkdtemp", "write", "spawn", "status", "read", "none"},
     t \in {<<>>, <<97>>, <<98, 13, 10, 98>>},
     c \in {"none", "unlink", "rmdir"}}

InitEditor ==
  /\ \E t \in InitialTexts, o \in 0..MaxInitOffset : state = initialState(t, o)
  /\ viewport \in Viewports
  /\ last = [type |-> "INIT"]
  /\ visualScrollRow = 0
  /\ host \in {[QuietHost EXCEPT !.isRaw = r] : r \in BOOLEAN}
  /\ clearing = NotInvoked

OpenInExternalEditorCall == \E o \in EditorOutcomes :
  LET r == openInExternalEditor(state, host, o)
      s == reduceAll(state, r.dispatched)
  IN /\ WithinSession(s)
     /\ state' = s
     /\ host' = r.host
     /\ last' = [type |-> "openInExternalEditor", fail |-> o.fail,
                 cleanup |-> o.cleanup, threw |-> r.threw]
     /\ UNCHANGED <<viewport, visualScrollRow, clearing>>

EditorUndo ==
  /\ state' = textBufferReducer(state, Plain("UNDO"))
  /\ last' = Plain("undo")
  /\ UNCHANGED <<viewport, visualScrollRow, host, clearing>>

SpecEditor ==
  InitEditor /\ [][ \/ OpenInExternalEditorCall
                    \/ EditorUndo ]_vars

\* C23 as stated: if the external editor fails (spawn error, non-zero exit
\* status or read-back error), the lines and the cursor after
\* openInExternalEditor are those held before the call, and no exception
\* reaches the caller.
C23_EditorFailureKeepsBuffer ==
  \A o \in EditorOutcomes :
    o.fail \in {"spawn", "status", "read"} =>
      LET r == openInExternalEditor(state, host, o)
          s == reduceAll(state, r.dispatched)
      IN /\ s.lines = state.lines
         /\ s.cursorRow = state.cursorRow
         /\ s.cursorCol = state.cursorCol
         /\ ~r.threw

(***************************************************************************)
(* A long session of typing and of editing in the external editor: the     *)
(* history grows past historyLimit.                                        *)
(***************************************************************************)
HistoryEdit ==
  LET o == [fail |-> "none", newText |-> textOf(state) \o <<97>>,
            cleanup |-> "none"]
      r == openInExternalEditor(state, host, o)
      s == reduceAll(state, r.dispatched)
  IN /\ WithinHistory(s)
     /\ state' = s
     /\ host' = r.host
     /\ last' = [type |-> "openInExternalEditor", fail |-> o.fail,
                 cleanup |-> o.cleanup, threw |-> r.threw]
     /\ UNCHANGED <<viewport, visualScrollRow, clearing>>

SpecEditorHistory ==
  InitEditor /\ [][ \/ HistoryInsert
                    \/ HistoryEdit ]_vars

\* The editor calls that succeed.
EditorSuccesses == {o \in EditorOutcomes : o.fail = "none"}

\* C24 as stated: a successful external-editor round trip grows the undo
\* stack by exactly one snapshot, and a single UNDO afterwards restores the
\* lines and cursor held before openInExternalEditor was called.
C24_EditorRoundTripGrowsUndoByOne ==
  \A o \in EditorSuccesses :
    LET s == reduceAll(state, openInExternalEditor(state, host, o).dispatched)
        u == textBufferReducer(s, Plain("UNDO"))
    IN /\ Len(s.undoStack) = Len(state.undoStack) + 1
       /\ u.lines = state.lines
       /\ u.cursorRow = state.cursorRow
       /\ u.cursorCol = state.cursorCol

\* C24: a successful external-editor round trip pushes exactly one snapshot,
\* that of the lines and cursor held before the call (the undo stack grows
\* by one, or keeps historyLimit entries and drops its oldest), and a single
\* UNDO afterwards restores those lines and that cursor.
C24_EditorRoundTripIsOneUndoStep ==
  \A o \in EditorSuccesses :
    LET s == reduceAll(state, openInExternalEditor(state, host, o).dispatched)
        u == textBufferReducer(s, Plain("UNDO"))
        n == Len(state.undoStack)
    IN /\ IF n < historyLimit
          THEN s.undoStack = Append(state.undoStack, snapshotOf(state))
          ELSE s.undoStack = Append(Tail(state.undoStack), snapshotOf(state))
       /\ s.lines = split(replaceCROptLF(o.newText), 10)
       /\ u.lines = state.lines
       /\ u.cursorRow = state.cursorRow
       /\ u.cursorCol = state.cursorCol

\* An editor round trip has succeeded with the undo stack full.
C24_Witness ==
  /\ last.type = "openInExternalEditor"
  /\ last.fail = "none"
  /\ Len(state.undoStack) = historyLimit
  /\ textBufferReducer(state, Plain("UNDO")).lines # state.lines

\* C25 as stated: on every exit path of openInExternalEditor, failure at any
\* step after the temp directory is created included, the temp file and the
\* temp directory have been removed and raw mode is what it was before the
\* call.
C25_EditorCleansUp ==
  \A o \in EditorOutcomes :
    o.fail # "mkdtemp" =>
      LET r == openInExternalEditor(state, host, o)
      IN /\ r.host.tmpFile = host.tmpFile
         /\ r.host.tmpDir = host.tmpDir
         /\ r.host.isRaw = host.isRaw

(***************************************************************************)
(* Change notification.  A render derives text from lines and passes the   *)
(* host's onChange to an effect with dependencies [text, onChange]; the    *)
(* effect runs after mount and after every render whose dependencies       *)
(* differ from those it last ran with.                                     *)
(***************************************************************************)
\* The effect that calls onChange twice.
onChangeEffectTwice(h, text) ==
  [h EXCEPT !.effectDeps = Some(<<text, h.onChange>>),
            !.told = IF h.onChange # undefined
                     THEN Append(Append(@, text), text) ELSE @]

onChangeEffect(h, text) ==
  [h EXCEPT !.effectDeps = Some(<<text, h.onChange>>),
            !.told = IF h.onChange # undefined THEN Append(@, text) ELSE @]

\* The render has scheduled the change effect and it has not run yet.
changePending == host.effectDeps # Some(<<textOf(state), host.onChange>>)

\* Mount: the host passes its callback, the first render schedules the
\* effect.
InitChange ==
  /\ \E t \in InitialTexts : state = initialState(t, 0)
  /\ viewport \in Viewports
  /\ last = [type |-> "mount", changed |-> FALSE, fresh |-> FALSE]
  /\ visualScrollRow = 0
  /\ host = [QuietHost EXCEPT !.onChange = 0]
  /\ clearing = NotInvoked

\* One dispatch and the render that follows it; the host passes the callback
\* of the render before or, when the state changed, possibly another one.
ChangeDispatch ==
  \E a \in {[type |-> "APPLY_OPERATIONS", payload |-> ops] :
                ops \in {<<>>, <<insertOp(<<97>>)>>, <<backspaceOp>>}}
             \cup {move(state, viewport.width, d) : d \in {"left", "right"}}
             \cup {Plain("COPY"), Plain("START_SELECTION")},
     fn \in {0, 1} :
    LET s == textBufferReducer(state, a)
    IN /\ ~changePending
       /\ Bounded(s)
       /\ fn # host.onChange => s # state
       /\ state' = s
       /\ host' = [host EXCEPT !.onChange = fn, !.told = <<>>]
       /\ last' = [type |-> a.type, changed |-> textOf(s) # textOf(state),
                   fresh |-> fn # host.onChange]
       /\ UNCHANGED <<viewport, visualScrollRow, clearing>>

ChangeEffect ==
  /\ changePending
  /\ host' = onChangeEffect(host, textOf(state))
  /\ UNCHANGED <<state, viewport, last, visualScrollRow, clearing>>

\* The effect is a scheduled callback: once a render has scheduled it, it
\* runs.
FairSpecChange ==
  /\ InitChange
  /\ [][ChangeDispatch \/ ChangeEffect]_vars
  /\ WF_vars(ChangeEffect)

\* The last action changed the derived text.
textChanged == last.changed

\* C26 as stated: after an action, onChange(text) has been invoked exactly
\* once if the action changed the derived text and not at all if it left the
\* text unchanged.
C26_OnChangeOncePerTextChange ==
  ~changePending /\ last.type # "mount" =>
    host.told = IF textChanged THEN <<textOf(state)>> ELSE <<>>

\* C26: the effect of a render always runs; once it has run, onChange has
\* been invoked exactly once with the derived text if this was the mount, if
\* the derived text differs from that of the render before or if the host
\* passed another callback, and not at all otherwise; it is not invoked
\* before the effect runs.
C26_OnChangeOncePerDependencyChange ==
  /\ [](changePending => host.told = <<>>)
  /\ [](~changePending =>
          host.told = IF last.type = "mount" \/ textChanged \/ last.fresh
                      THEN <<textOf(state)>> ELSE <<>>)
  /\ (changePending ~> ~changePending)

\* onChange has been told of an edit, and a cursor move with the same
\* callback has told it nothing.
C26_Witness ==
  /\ ~changePending
  /\ \/ last.type = "APPLY_OPERATIONS" /\ textChanged
        /\ host.told = <<textOf(state)>>
     \/ last.type = "MOVE" /\ ~last.fresh /\ host.told = <<>>

\* text with every CR made LF and every LF that follows a CR left out.
withLineFeeds(text) ==
  LET kept == {i \in 1..Len(text) : ~(text[i] = 10 /\ i > 1 /\ text[i - 1] = 13)}
      at(k) == CHOOSE i \in kept : Cardinality({j \in kept : j <= i}) = k
  IN [k \in 1..Cardinality(kept) |-> IF text[at(k)] = 13 THEN 10 ELSE text[at(k)]]

\* setText(text) on a new buffer, for every text over a, CR and LF.
SetTextOnce ==
  \E text \in UNION {[1..n -> {97, 13, 10}] : n \in 0..MaxTextLen},
     pushToUndo \in BOOLEAN :
    /\ last.type = "INIT"
    /\ state' = textBufferReducer(state, [type |-> "SET_TEXT", payload |-> text,
                                          pushToUndo |-> pushToUndo])
    /\ last' = [type |-> "SET_TEXT", text |-> text]
    /\ UNCHANGED <<viewport, visualScrollRow, host, clearing>>

SpecSetText == Init /\ [][SetTextOnce]_vars

\* C27: for every text, SET_TEXT(text) leaves lines whose join by newline is
\* text with every CRLF and every lone CR replaced by LF (one empty line for
\* the empty text), the cursor at the end of the last line and preferredCol
\* null.
C27_SetTextNormalises ==
  last.type = "SET_TEXT" =>
    /\ join(state.lines, 10) = withLineFeeds(last.text)
    /\ Len(state.lines) >= 1
    /\ last.text = <<>> => state.lines = <<<<>>>>
    /\ \A i \in 1..Len(state.lines) : \A j \in 1..Len(state.lines[i]) :
         state.lines[i][j] \notin {10, 13}
    /\ state.cursorRow = Len(state.lines) - 1
    /\ state.cursorCol = Len(state.lines[Len(state.lines)])
    /\ state.preferredCol = null

\* SET_TEXT has replaced a buffer by a text with a CRLF and a lone CR: three
\* lines, the cursor at the end of the last one.
C27_Witness ==
  /\ last.type = "SET_TEXT"
  /\ last.text = <<97, 13, 10, 13>>
  /\ state.lines = <<<<97>>, <<>>, <<>>>>
  /\ state.cursorRow = 2 /\ state.cursorCol = 0
  /\ state.preferredCol = null

\* C28 as stated: DELETE_WORD_LEFT with the cursor at column 0 leaves lines,
\* cursor, undo stack and redo stack unchanged, on the first row and on every
\* later row.
C28_DeleteWordLeftAtColumnZero ==
  state.cursorCol = 0 =>
    LET s == textBufferReducer(state, Plain("DELETE_WORD_LEFT"))
    IN /\ s.lines = state.lines
       /\ s.cursorRow = state.cursorRow /\ s.cursorCol = state.cursorCol
       /\ s.undoStack = state.undoStack /\ s.redoStack = state.redoStack

(***************************************************************************)
(* Cursor motion and selection among deletions.                            *)
(***************************************************************************)
SpecMotion ==
  Init /\ [][ \/ Move
              \/ MoveToOffset
              \/ Copy
              \/ StartSelection
              \/ Delete ]_vars

\* C29: MOVE, MOVE_TO_OFFSET, COPY and START_SELECTION leave lines, undo
\* stack and redo stack unchanged; COPY changes nothing but the clipboard,
\* nothing at all without an anchor or with the anchor at the cursor, and
\* keeps the anchor; START_SELECTION changes nothing but the anchor.
C29_MotionAndSelectionFrame ==
  \A a \in MoveActions(state, viewport.width) \cup MoveToOffsetActions(state)
             \cup {Plain("COPY"), Plain("START_SELECTION")} :
    LET s == textBufferReducer(state, a)
    IN /\ s.lines = state.lines
       /\ s.undoStack = state.undoStack
       /\ s.redoStack = state.redoStack
       /\ a.type = "COPY" =>
            /\ [s EXCEPT !.clipboard = state.clipboard] = state
            /\ state.selectionAnchor
                 \in {null, Some(<<state.cursorRow, state.cursorCol>>)}
               => s = state
            /\ state.selectionAnchor # null => s.selectionAnchor # null
       /\ a.type = "START_SELECTION" =>
            [s EXCEPT !.selectionAnchor = state.selectionAnchor] = state

\* COPY has put the selected text between the anchor and the moved cursor on
\* the clipboard of a buffer with undo history, and the anchor is still set.
C29_Witness ==
  /\ last.type = "COPY"
  /\ state.selectionAnchor # null
  /\ state.selectionAnchor # Some(<<state.cursorRow, state.cursorCol>>)
  /\ state.clipboard = Some(<<97>>)
  /\ Len(state.undoStack) > 0

(***************************************************************************)
(* The clear command.  c is an invocation of clearCommand.action: c.pc the *)
(* statement it is at, c.config what context.services.config holds (a      *)
(* config with a client, a config whose getGeminiClient() returns nothing, *)
(* or none), c.fails the collaborator that throws or rejects (or "none"),  *)
(* c.calls the calls made so far, c.reset the promise resetChat returned   *)
(* and c.promise the promise the action returned.                          *)
(***************************************************************************)
\* The action without the await: it goes on while resetChat is pending.
clearStepWithoutAwait(c) ==
  LET call(name, next) ==
        IF c.fails = name
        THEN [c EXCEPT !.calls = Append(@, name),
                       !.pc = "done", !.promise = "rejected"]
        ELSE [c EXCEPT !.calls = Append(@, name), !.pc = next]
  IN CASE c.pc = "onDebugMessage" -> call("onDebugMessage", "clearItems")
       [] c.pc = "clearItems" -> call("clearItems", "resetChat")
       [] c.pc = "resetChat" ->
            \* config?.getGeminiClient()?.resetChat()
            IF c.config = "client"
            THEN [c EXCEPT !.calls = Append(@, "resetChat"),
                           !.reset = "pending", !.pc = "console.clear"]
            ELSE [c EXCEPT !.pc = "await"]
       [] c.pc = "await" ->
            IF c.reset = "rejected"
            THEN [c EXCEPT !.pc = "done", !.promise = "rejected"]
            ELSE [c EXCEPT !.pc = "console.clear"]
       [] c.pc = "console.clear" -> call("console.clear", "refreshStatic")
       [] c.pc = "refreshStatic" ->
            [call("refreshStatic", "done") EXCEPT
               !.pc = "done",
               !.promise = IF c.fails = "refreshStatic" THEN "rejected"
                           ELSE "resolved"]

\* The statement at c.pc; a throw or a rejected await rejects the promise
\* of the async function.
clearStep(c) ==
  LET call(name, next) ==
        IF c.fails = name
        THEN [c EXCEPT !.calls = Append(@, name),
                       !.pc = "done", !.promise = "rejected"]
        ELSE [c EXCEPT !.calls = Append(@, name), !.pc = next]
  IN CASE c.pc = "onDebugMessage" -> call("onDebugMessage", "clearItems")
       [] c.pc = "clearItems" -> call("clearItems", "resetChat")
       [] c.pc = "resetChat" ->
            \* config?.getGeminiClient()?.resetChat()
            IF c.config = "client"
            THEN [c EXCEPT !.calls = Append(@, "resetChat"),
                           !.reset = "pending", !.pc = "await"]
            ELSE [c EXCEPT !.pc = "await"]
       [] c.pc = "await" ->
            IF c.reset = "rejected"
            THEN [c EXCEPT !.pc = "done", !.promise = "rejected"]
            ELSE [c EXCEPT !.pc = "console.clear"]
       [] c.pc = "console.clear" -> call("console.clear", "refreshStatic")
       [] c.pc = "refreshStatic" ->
            [call("refreshStatic", "done") EXCEPT
               !.pc = "done",
               !.promise = IF c.fails = "refreshStatic" THEN "rejected"
                           ELSE "resolved"]

\* The command registry invokes the action with a context.
ClearInvoke ==
  \E config \in {"client", "noClient", "none"},
     fails \in {"none", "onDebugMessage", "clearItems", "resetChat",
                "console.clear", "refreshStatic"} :
    /\ clearing.pc \in {"idle", "done"}
    /\ clearing' = [pc |-> "onDebugMessage", config |-> config,
                    fails |-> fails, calls |-> <<>>, reset |-> "none",
                    promise |-> "pending"]
    /\ UNCHANGED <<state, viewport, last, visualScrollRow, host>>

\* The action runs its next statement; at the await it waits for the promise
\* of resetChat.
ClearStep ==
  /\ clearing.pc \notin {"idle", "done"}
  /\ ~(clearing.pc = "await" /\ clearing.reset = "pending")
  /\ clearing' = clearStep(clearing)
  /\ UNCHANGED <<state, viewport, last, visualScrollRow, host>>

\* The client settles the promise of resetChat.
ResetChatSettles ==
  /\ clearing.reset = "pending"
  /\ clearing' = [clearing EXCEPT
                    !.reset = IF clearing.fails = "resetChat" THEN "rejected"
                              ELSE "resolved"]
  /\ UNCHANGED <<state, viewport, last, visualScrollRow, host>>

\* The event loop runs the action until it awaits or returns, and the client
\* answers.
FairSpecClear ==
  /\ Init
  /\ [][ClearInvoke \/ ClearStep \/ ResetChatSettles]_vars
  /\ WF_vars(ClearStep)
  /\ WF_vars(ResetChatSettles)

\* The promise of the action is settled.
settled == clearing.promise \in {"resolved", "rejected"}

\* C30 as stated: every invocation has called onDebugMessage, ui.clearItems,
\* resetChat, console.clear and ui.refreshStatic once each in that order when
\* its promise is settled, console.clear is called only once resetChat has
\* completed, and the promise resolves.
C30_ClearCallsAllInOrder ==
  /\ "console.clear" \in {clearing.calls[i] : i \in DOMAIN clearing.calls}
       => clearing.reset = "resolved"
  /\ settled =>
       /\ clearing.calls = <<"onDebugMessage", "clearItems", "resetChat",
                             "console.clear", "refreshStatic">>
       /\ clearing.promise = "resolved"

\* The calls of an invocation in which nothing fails.
expectedCalls ==
  <<"onDebugMessage", "clearItems">>
    \o (IF clearing.config = "client" THEN <<"resetChat">> ELSE <<>>)
    \o <<"console.clear", "refreshStatic">>

\* C30: the calls made are always the first calls of onDebugMessage,
\* ui.clearItems, resetChat (when the context has a config with a client),
\* console.clear, ui.refreshStatic; console.clear is called only once a
\* pending resetChat has resolved; every invocation settles its promise, and
\* then either nothing failed, all the calls were made and the promise is
\* resolved, or the last call made is the one that failed and the promise is
\* rejected.
C30_ClearCallsInOrderUntilFailure ==
  /\ [](/\ Len(clearing.calls) <= Len(expectedCalls)
        /\ clearing.calls = SubSeq(expectedCalls, 1, Len(clearing.calls)))
  /\ []("console.clear" \in {clearing.calls[i] : i \in DOMAIN clearing.calls}
          => clearing.reset \in {"none", "resolved"})
  /\ [](settled =>
          IF clearing.fails \in {expectedCalls[i] : i \in DOMAIN expectedCalls}
          THEN /\ clearing.promise = "rejected"
               /\ clearing.calls # <<>>
               /\ clearing.calls[Len(clearing.calls)] = clearing.fails
          ELSE /\ clearing.promise = "resolved"
               /\ clearing.calls = expectedCalls)
  /\ (clearing.promise = "pending" ~> settled)

\* An invocation with a client has made all five calls and its promise is
\* resolved.
C30_Witness ==
  /\ clearing.config = "client"
  /\ clearing.reset = "resolved"
  /\ clearing.promise = "resolved"
  /\ Len(clearing.calls) = 5

\* The chunk on visual row v of layout is not the last of its logical line
\* and ends at column `at` of that line.
chunkEndsAt(layout, line, v, at) ==
  /\ v + 1 < Len(layout.visualLines)
  /\ layout.visualToLogicalMap[v + 1][1] = layout.visualToLogicalMap[v + 2][1]
  /\ at = layout.visualToLogicalMap[v + 1][2] + Len(layout.visualLines[v + 1])
  /\ at < Len(line)

\* C31 as stated: with the logical cursor at the end of a chunk that is not
\* the last chunk of its logical line, the visual cursor is on the row of
\* that chunk at the column equal to the chunk length, whether the chunk
\* ends at a space or is hard-broken.
C31_CursorAtChunkEndStaysOnChunk ==
  \A row \in 0..(Len(state.lines) - 1) :
    \A col \in 0..Len(state.lines[row + 1]) :
      \A layout \in {calculateVisualLayout(state.lines, <<row, col>>,
                                           viewport.width)} :
        \A v \in 0..(Len(layout.visualLines) - 1) :
          layout.visualToLogicalMap[v + 1][1] = row
          /\ chunkEndsAt(layout, state.lines[row + 1], v, col)
          => layout.visualCursor = <<v, Len(layout.visualLines[v + 1])>>

(***************************************************************************)
(* Word and line deletions on every text over a, space, comma and LF, with *)
(* the cursor at every offset.                                             *)
(***************************************************************************)
InitWord ==
  /\ \E t \in UNION {[1..n -> {97, 32, 44, 10}] : n \in 0..MaxTextLen} :
       \E o \in 0..Len(t) : state = initialState(t, o)
  /\ viewport \in Viewports
  /\ last = [type |-> "INIT"]
  /\ visualScrollRow = 0
  /\ host = QuietHost
  /\ clearing = NotInvoked

\* deleteWordLeft(), deleteWordRight(), killLineRight(), del() or
\* backspace().
DeletionCall ==
  \E a \in {Plain("DELETE_WORD_LEFT"), Plain("DELETE_WORD_RIGHT"),
            Plain("KILL_LINE_RIGHT"), Plain("DELETE"),
            [type |-> "APPLY_OPERATIONS", payload |-> <<backspaceOp>>]} :
    LET s == textBufferReducer(state, a)
    IN /\ Len(s.undoStack) <= MaxUndo
       /\ state' = s
       /\ last' = [type |-> a.type, row |-> state.cursorRow,
                   col |-> state.cursorCol]
       /\ UNCHANGED <<viewport, visualScrollRow, host, clearing>>

SpecWord == InitWord /\ [][DeletionCall]_vars

\* Where DELETE_WORD_LEFT stops in line from column c: left of the run of
\* non-word code points that ends at c and of the run of word code points
\* before it; one column left of c when nothing but non-word code points
\* are left of c.
wordStart(line, c) ==
  LET word(i) == i >= 1 /\ i <= Len(line) /\ line[i] \notin NonWordCodePoints
      Max(S) == CHOOSE x \in S : \A y \in S : y <= x
      j == Max({i \in 0..c : i = 0 \/ word(i)})
      k == Max({i \in 0..j : i = 0 \/ ~word(i)})
  IN IF \A i \in 1..c : ~word(i) THEN c - 1 ELSE k

\* C32: DELETE_WORD_LEFT with the cursor at column c > 0 removes the code
\* points from wordStart to c of the current line, leaves every other line
\* as it is and moves the cursor to wordStart.
C32_DeleteWordLeft ==
  state.cursorCol > 0 =>
    LET s == textBufferReducer(state, Plain("DELETE_WORD_LEFT"))
        row == state.cursorRow
        line == state.lines[row + 1]
        start == wordStart(line, state.cursorCol)
    IN /\ Len(s.lines) = Len(state.lines)
       /\ \A i \in 1..Len(s.lines) : i # row + 1 => s.lines[i] = state.lines[i]
       /\ s.lines[row + 1] = SubSeq(line, 1, start)
                               \o SubSeq(line, state.cursorCol + 1, Len(line))
       /\ s.cursorRow = row
       /\ s.cursorCol = start
       /\ start < state.cursorCol

\* DELETE_WORD_LEFT has removed the second word and the comma after it from
\* a four-code-point line with the cursor at its end.
C32_Witness ==
  /\ last.type = "DELETE_WORD_LEFT"
  /\ last.col = 4
  /\ state.lines = <<<<97, 32>>>>
  /\ state.cursorCol = 2

\* lines with line row (0-based) and the line after it made one line.
joined(lines, row) ==
  SubSeq(lines, 1, row) \o <<lines[row + 1] \o lines[row + 2]>>
    \o SubSeq(lines, row + 3, Len(lines))

C34_PasteIsInsertOfClipboard ==
  state.clipboard # null =>
    LET pasted == textBufferReducer(state, Plain("PASTE"))
        inserted ==
          textBufferReducer(state,
            [type |-> "APPLY_OPERATIONS",
             payload |-> <<insertOp(Val(state.clipboard))>>])
    IN /\ pasted.lines = inserted.lines
       /\ pasted.cursorRow = inserted.cursorRow
       /\ pasted.cursorCol = inserted.cursorCol
       /\ pasted.undoStack = inserted.undoStack
       /\ pasted.redoStack = inserted.redoStack

\* The visual rows (1-based) the layout gives to logical line i (0-based).
rowsOf(layout, i) ==
  {v \in 1..Len(layout.visualLines) : layout.visualToLogicalMap[v][1] = i}

\* C35: for every viewport width, widths below a code point's width
\* included, the layouter returns; every visual line of a non-empty logical
\* line holds at least one code point, and a logical line has at most as
\* many visual lines as code points.
C35_LayoutTerminates ==
  \A w \in (-1)..MaxWidth :
    \A layout \in {calculateVisualLayout(state.lines,
                                         <<state.cursorRow, state.cursorCol>>,
                                         w)} :
      \A i \in 1..Len(state.lines) :
        Len(state.lines[i]) > 0 =>
          /\ \A v \in rowsOf(layout, i - 1) : Len(layout.visualLines[v]) >= 1
          /\ Cardinality(rowsOf(layout, i - 1)) <= Len(state.lines[i])
          /\ Cardinality(rowsOf(layout, i - 1)) >= 1

\* A line of two ideographs has been rendered at width 1, narrower than
\* either of them: one visual line per ideograph.
C35_Witness ==
  /\ last.type = "render"
  /\ viewport.width = 1
  /\ state.lines = <<<<20013, 20013>>>>
  /\ last.visualLines = <<<<20013>>, <<20013>>>>

(***************************************************************************)
(* Traversal: the same horizontal MOVE is dispatched again and again, each *)
(* with the layout of the render that followed the one before.             *)
(***************************************************************************)
InitTraverse ==
  /\ state = initialState(<<>>, 0)
  /\ viewport = [width |-> 1, height |-> 1]
  /\ last = [type |-> "INIT", dir |-> "none"]
  /\ visualScrollRow = 0
  /\ host = QuietHost
  /\ clearing = NotInvoked

\* The host mounts the buffer with a text, a cursor offset and a viewport;
\* dir is the arrow key that is then held down.
Mount ==
  \E t \in UNION {[1..n -> {97, 32, 10}] : n \in 0..MaxLayoutLen} :
    \E o \in 0..Len(t), v \in LayoutViewports, d \in {"left", "right"} :
      /\ last.type = "INIT"
      /\ state' = initialState(t, o)
      /\ viewport' = v
      /\ last' = [type |-> "mount", dir |-> d]
      /\ UNCHANGED <<visualScrollRow, host, clearing>>

\* useMemo(() => calculateVisualLayout(lines, [cursorRow, cursorCol],
\* viewport.width), [lines, cursorRow, cursorCol, viewport.width]): the
\* layouts by their dependencies, <<lines, cursorRow, cursorCol, width,
\* layout>>, for every buffer Mount can produce and every cursor in it.
visualLayoutMemo ==
  {<<s.lines, s.cursorRow, s.cursorCol, w, layoutOf(s, w)>> :
     s \in UNION {{initialState(t, o) : o \in 0..Len(t)} :
                    t \in UNION {[1..n -> {97, 32, 10}] :
                                   n \in 0..MaxLayoutLen}},
     w \in 1..MaxWidth}

Traverse ==
  \E memo \in {e \in visualLayoutMemo :
                 /\ e[1] = state.lines
                 /\ e[2] = state.cursorRow
                 /\ e[3] = state.cursorCol
                 /\ e[4] = viewport.width} :
    /\ last.type # "INIT"
    /\ state' = textBufferReducer(state,
                  [type |-> "MOVE", dir |-> last.dir,
                   visualLayout |-> memo[5]])
    /\ last' = [type |-> "move", dir |-> last.dir]
    /\ UNCHANGED <<viewport, visualScrollRow, host, clearing>>

\* The key repeats for as long as the cursor still moves.
FairSpecTraverse ==
  InitTraverse /\ [][Mount \/ Traverse]_vars /\ WF_vars(Traverse)

atBufferStart == state.cursorRow = 0 /\ state.cursorCol = 0

atBufferEnd ==
  /\ state.cursorRow = Len(state.lines) - 1
  /\ state.cursorCol = cpLen(state.lines[Len(state.lines)])

\* C36 as stated: repeating MOVE left eventually brings the cursor to (0,0)
\* and repeating MOVE right eventually brings it to the end of the last
\* line.
C36_MotionTraversesBuffer ==
  /\ (last.dir = "left") ~> atBufferStart
  /\ (last.dir = "right") ~> atBufferEnd

\* C37 as stated: for every valid logical cursor the visual cursor maps back
\* to it: visualToLogicalMap[visualCursor row] is (cursorRow, start) with
\* start + visualCursor col = cursorCol.
C37_VisualCursorMapsBack ==
  \A row \in 0..(Len(state.lines) - 1) :
    \A col \in 0..Len(state.lines[row + 1]) :
      \A layout \in {calculateVisualLayout(state.lines, <<row, col>>,
                                           viewport.width)} :
        /\ layout.visualCursor[1] < Len(layout.visualToLogicalMap)
        /\ layout.visualToLogicalMap[layout.visualCursor[1] + 1][1] = row
        /\ layout.visualToLogicalMap[layout.visualCursor[1] + 1][2]
             + layout.visualCursor[2] = col

\* C38: the visual cursor is inside the visual layout: its row is a visual
\* line, its column is at most the length of that visual line, and that
\* visual line belongs to the logical row of the cursor.
C38_VisualCursorInsideLayout ==
  \A layout \in {layoutOf(state, viewport.width)} :
    /\ 0 <= layout.visualCursor[1]
    /\ layout.visualCursor[1] < Len(layout.visualLines)
    /\ 0 <= layout.visualCursor[2]
    /\ layout.visualCursor[2]
         <= cpLen(layout.visualLines[layout.visualCursor[1] + 1])
    /\ layout.visualToLogicalMap[layout.visualCursor[1] + 1][1]
         = state.cursorRow

\* The number of LF code points of a string.
lineFeeds(str) == Cardinality({i \in 1..Len(str) : str[i] = 10})

\* C39 as stated: no element of lines contains LF or CR, and the number of
\* lines is the number of LF characters of the joined text plus one.
C39_LinesHoldNoLineBreak ==
  /\ \A i \in 1..Len(state.lines) :
       \A j \in 1..Len(state.lines[i]) : state.lines[i][j] \notin {10, 13}
  /\ Len(state.lines) = lineFeeds(textOf(state)) + 1

\* No line holds code point 0x7F or a control code point <= 0x1F.
freeOfUnsafe(lines) ==
  \A i \in 1..Len(lines) :
    \A j \in 1..Len(lines[i]) : lines[i][j] # 127 /\ lines[i][j] > 31

\* Texts with DEL, TAB, ESC and line breaks among printable code points.
ControlTexts ==
  {<<97, 127>>, <<9, 97>>, <<27>>, <<97, 13, 10, 98>>, <<127, 10, 9>>}

\* The states that follow the arrival of text by each of the five ways.
afterInsert(text) ==
  textBufferReducer(state,
    [type |-> "APPLY_OPERATIONS", payload |-> <<insertOp(text)>>])
afterPaste(text) ==
  textBufferReducer([state EXCEPT !.clipboard = Some(text)], Plain("PASTE"))
afterSetText(text) ==
  textBufferReducer(state,
    [type |-> "SET_TEXT", payload |-> text, pushToUndo |-> TRUE])
afterReplaceRange(text) ==
  textBufferReducer(state,
    [type |-> "REPLACE_RANGE", startRow |-> state.cursorRow,
     startCol |-> state.cursorCol, endRow |-> state.cursorRow,
     endCol |-> state.cursorCol, text |-> text])
afterEditor(text) ==
  reduceAll(state,
    openInExternalEditor(state, host,
      [fail |-> "none", newText |-> text, cleanup |-> "none"]).dispatched)

\* C40 as stated: from lines free of unsafe characters, no insert, PASTE,
\* SET_TEXT, REPLACE_RANGE or external-editor load leaves a line that holds
\* code point 0x7F or a control code point <= 0x1F.
C40_UnsafeNeverEnters ==
  freeOfUnsafe(state.lines) =>
    \A text \in ControlTexts :
      /\ freeOfUnsafe(afterInsert(text).lines)
      /\ freeOfUnsafe(afterPaste(text).lines)
      /\ freeOfUnsafe(afterSetText(text).lines)
      /\ freeOfUnsafe(afterReplaceRange(text).lines)
      /\ freeOfUnsafe(afterEditor(text).lines)

====
